---- MODULE Spec2Model ----
(***************************************************************************)
(* A model of the a0 interpreter: the lexer (frontend/lexer.go), the       *)
(* recursive-descent parser, the scoped environment and the tree-walking   *)
(* evaluator, driven as main.go drives them: Lex, then ProduceAst, then    *)
(* Evaluate.  Go strings are TLA+ strings; a rune is a one-character       *)
(* string.  float64 numbers are modelled as normalised rationals.          *)
(***************************************************************************)
EXTENDS Integers, Sequences, FiniteSets, TLC

VARIABLES
    src,            \* the source text handed to the lexer's reader
    pc,             \* the driver's position: "lex", "parse", "eval", "done"
    lexer,          \* Lexer: [line, column] of l.pos and rd, the reader's offset
    tokenList,      \* the tokens Lex has appended so far
    parser,         \* Parser: tokenIndex and the Program body built so far
    interp,         \* evaluator: the environments, the output, the statement index
    outcome,        \* how the run ended and what the driver wrote
    da, db, dres    \* operands and result of a direct deepEqual application

vars == <<src, pc, lexer, tokenList, parser, interp, outcome, da, db, dres>>

(***************************************************************************)
(* Bounds of the model.                                                    *)
(***************************************************************************)
\* longest source text drawn character by character for the lexer
MaxSrcLen == 3
\* evaluation steps (statements and loop iterations) one run may take
MaxFuel == 12

(***************************************************************************)
(* Characters (unicode.IsDigit, unicode.IsLetter, unicode.IsSpace).        *)
(***************************************************************************)
Digits == {"0", "1", "2", "3", "4", "5", "6", "7", "8", "9"}

Letters == {"a", "b", "c", "d", "e", "f", "g", "h", "i", "j", "k", "l", "m",
            "n", "o", "p", "q", "r", "s", "t", "u", "v", "w", "x", "y", "z",
            "A", "B", "C", "D", "E", "F", "G", "H", "I", "J", "K", "L", "M",
            "N", "O", "P", "Q", "R", "S", "T", "U", "V", "W", "X", "Y", "Z"}

IsDigit(r) == r \in Digits

IsLetter(r) == r \in Letters

IsSpace(r) == r \in {" ", "\t", "\r", "\n"}

\* the rune U+2753 of the keyword table.  The model's texts are ASCII and
\* write it ?: for both runes unicode.IsLetter, IsDigit and IsSpace are
\* false and no case of the switch of Lex matches
U2753 == "?"

\* the rune at offset i of the reader (ReadRune)
Ch(s, i) == SubSeq(s, i, i)

(***************************************************************************)
(* Tokens.                                                                 *)
(***************************************************************************)
\* the iota order of the Token constants
TokenOrder == <<"EOF", "ILLEGAL", "IDENT", "RETURN", "INT", "FLOAT", "STRING",
                "CHAR", "VAR", "CONST", "OPENCURLY", "CLOSECURLY", "OPENPAREN",
                "CLOSEPAREN", "OPENBRACKET", "CLOSEBRACKET", "ADD", "SUB",
                "MUL", "DIV", "MOD", "NOT", "COLON", "COMMA", "DOT", "DE", "NE",
                "GT", "LT", "GTE", "LTE", "IF", "FOR", "WHILE", "FUN", "AND",
                "OR", "EQUALS">>

\* the integer value of a Token constant (EOF = 0)
TokenNum(t) == (CHOOSE i \in 1..Len(TokenOrder) : TokenOrder[i] = t) - 1

TokenItem(p, t, v) == [pos |-> p, tokenType |-> t, value |-> v]

Position(l, c) == [line |-> l, column |-> c]

\* what a sub-lexer hands back: the literal, its type, and the reader state
LexOut(lit, t, rd, col) == [lit |-> lit, tokenType |-> t, rd |-> rd, column |-> col]

(***************************************************************************)
(* Sub-lexers.  Each starts after goBack, so it reads the first rune       *)
(* again; rd is the offset of the next rune and col is l.pos.column.       *)
(***************************************************************************)
RECURSIVE lexNumLoop(_, _, _, _, _, _)
lexNumLoop(s, rd, col, literal, varType, dotCount) ==
    IF rd > Len(s) THEN LexOut(literal, varType, rd, col)
    ELSE LET r == Ch(s, rd) IN
         IF IsDigit(r)
         THEN lexNumLoop(s, rd + 1, col + 1, literal \o r, varType, dotCount)
         ELSE IF r = "."
         THEN lexNumLoop(s, rd + 1, col + 1, literal \o r,
                         IF dotCount = 0 THEN "FLOAT" ELSE "ILLEGAL", dotCount + 1)
         ELSE LexOut(literal, varType, rd, col)

lexNum(s, rd, col) == lexNumLoop(s, rd, col, "", "INT", 0)

RECURSIVE lexIdentLoop(_, _, _, _)
lexIdentLoop(s, rd, col, literal) ==
    IF rd > Len(s) THEN LexOut(literal, "IDENT", rd, col)
    ELSE LET r == Ch(s, rd) IN
         IF IsLetter(r) \/ IsDigit(r) \/ r = "_"
         THEN lexIdentLoop(s, rd + 1, col + 1, literal \o r)
         ELSE LexOut(literal, "IDENT", rd, col)

lexIdent(s, rd, col) == lexIdentLoop(s, rd, col, "")

RECURSIVE lexStringLoop(_, _, _, _)
lexStringLoop(s, rd, col, literal) ==
    IF rd > Len(s) THEN LexOut(literal, "ILLEGAL", rd, col)
    ELSE LET r == Ch(s, rd) IN
         IF r = "\"" THEN LexOut(literal, "STRING", rd + 1, col + 1)
         ELSE lexStringLoop(s, rd + 1, col + 1, literal \o r)

lexString(s, rd, col) ==
    IF Ch(s, rd) # "\"" THEN LexOut("", "ILLEGAL", rd + 1, col + 1)
    ELSE lexStringLoop(s, rd + 1, col + 1, "")

\* the shared read loop of lexEquals, lexNot, lexAnd, lexOr, lexLessThan and
\* lexGreaterThan: runes of `accept` are written to lit, any other is unread
RECURSIVE lexRunLoop(_, _, _, _, _)
lexRunLoop(s, rd, col, accept, lit) ==
    IF rd > Len(s) THEN [lit |-> lit, rd |-> rd, column |-> col]
    ELSE LET r == Ch(s, rd) IN
         IF r \in accept THEN lexRunLoop(s, rd + 1, col + 1, accept, lit \o r)
         ELSE [lit |-> lit, rd |-> rd, column |-> col]

RECURSIVE CountRune(_, _)
CountRune(lit, r) ==
    IF Len(lit) = 0 THEN 0
    ELSE (IF Ch(lit, 1) = r THEN 1 ELSE 0) + CountRune(SubSeq(lit, 2, Len(lit)), r)

lexEquals(s, rd, col) ==
    LET run == lexRunLoop(s, rd, col, {"="}, "")
        equalCount == CountRune(run.lit, "=")
        equalType == CASE equalCount = 1 -> "EQUALS"
                       [] equalCount = 2 -> "DE"
                       [] OTHER -> "ILLEGAL"
    IN LexOut(run.lit, equalType, run.rd, run.column)

lexNot(s, rd, col) ==
    LET run == lexRunLoop(s, rd, col, {"!", "="}, "")
        notCount == CountRune(run.lit, "!")
        equalCount == CountRune(run.lit, "=")
        notType == IF notCount = 1 /\ equalCount = 1 THEN "NE"
                   ELSE IF notCount = 1 /\ equalCount = 0 THEN "NOT"
                   ELSE "ILLEGAL"
    IN LexOut(run.lit, notType, run.rd, run.column)

lexAnd(s, rd, col) ==
    LET run == lexRunLoop(s, rd, col, {"&"}, "")
        andCount == CountRune(run.lit, "&")
        andType == IF andCount = 2 THEN "AND" ELSE "ILLEGAL"
    IN LexOut(run.lit, andType, run.rd, run.column)

\* lexOr tests orType, still the zero Token (EOF), against 2; orCount is
\* counted and never read
lexOr(s, rd, col) ==
    LET run == lexRunLoop(s, rd, col, {"|"}, "")
        orCount == CountRune(run.lit, "|")
        orType0 == TokenOrder[1]
        orType == IF TokenNum(orType0) = 2 THEN "OR" ELSE "ILLEGAL"
    IN LexOut(run.lit, orType, run.rd, run.column)

lexLessThan(s, rd, col) ==
    LET run == lexRunLoop(s, rd, col, {"<", "="}, "")
        ltCount == CountRune(run.lit, "<")
        equalCount == CountRune(run.lit, "=")
        ltType == IF ltCount = 1 /\ equalCount = 1 THEN "LTE"
                  ELSE IF ltCount = 1 /\ equalCount = 0 THEN "LT"
                  ELSE "ILLEGAL"
    IN LexOut(run.lit, ltType, run.rd, run.column)

lexGreaterThan(s, rd, col) ==
    LET run == lexRunLoop(s, rd, col, {">", "="}, "")
        gtCount == CountRune(run.lit, ">")
        equalCount == CountRune(run.lit, "=")
        gtType == IF gtCount = 1 /\ equalCount = 1 THEN "GTE"
                  ELSE IF gtCount = 1 /\ equalCount = 0 THEN "GT"
                  ELSE "ILLEGAL"
    IN LexOut(run.lit, gtType, run.rd, run.column)

\* the token kind of a single-character token
SimpleToken == [c \in {"+", "-", "*", "/", "%", "(", ")", "{", "}", "[", "]",
                       ":", ",", "."} |->
    CASE c = "+" -> "ADD" [] c = "-" -> "SUB" [] c = "*" -> "MUL"
      [] c = "/" -> "DIV" [] c = "%" -> "MOD"
      [] c = "(" -> "OPENPAREN" [] c = ")" -> "CLOSEPAREN"
      [] c = "{" -> "OPENCURLY" [] c = "}" -> "CLOSECURLY"
      [] c = "[" -> "OPENBRACKET" [] c = "]" -> "CLOSEBRACKET"
      [] c = ":" -> "COLON" [] c = "," -> "COMMA" [] c = "." -> "DOT"]

\* the keyword table of Lex
Keyword(lit) ==
    CASE lit \in {"func", "fun", "fn", "funky", "def"} -> "FUN"
      [] lit \in {"if", U2753} -> "IF"
      [] lit = "for" -> "FOR"
      [] lit \in {"while", "loop", "forever"} -> "WHILE"
      [] lit \in {"var", "val", "define", "let"} -> "VAR"
      [] lit = "const" -> "CONST"
      [] lit \in {"and", "plus"} -> "AND"
      [] lit \in {"or", "perhaps"} -> "OR"
      [] lit = "not" -> "NOT"
      [] lit = "return" -> "RETURN"
      [] OTHER -> "IDENT"

(***************************************************************************)
(* Numbers.  A float64 is modelled as a normalised rational num/den with   *)
(* den > 0; the model's programs stay far from float64's rounding.         *)
(***************************************************************************)
Abs(n) == IF n < 0 THEN 0 - n ELSE n

RECURSIVE Gcd(_, _)
Gcd(a, b) == IF b = 0 THEN a ELSE Gcd(b, a % b)

Rat(n, d) ==
    LET g == Gcd(Abs(n), Abs(d))
        sg == IF d < 0 THEN 0 - 1 ELSE 1
    IN IF n = 0 THEN [num |-> 0, den |-> 1]
       ELSE [num |-> sg * (n \div g), den |-> sg * (d \div g)]

\* int(x): Go's conversion truncates toward zero
Trunc(x) == IF x.num >= 0 THEN x.num \div x.den ELSE 0 - ((0 - x.num) \div x.den)

DigitVal(c) == CHOOSE n \in 0..9 : ToString(n) = c

\* strconv.ParseFloat on a lexeme of lexNum: digits, then '.' and digits
RECURSIVE ParseFloatLoop(_, _, _, _, _)
ParseFloatLoop(s, i, n, d, afterDot) ==
    IF i > Len(s) THEN Rat(n, d)
    ELSE LET c == Ch(s, i) IN
         IF c = "." THEN ParseFloatLoop(s, i + 1, n, d, TRUE)
         ELSE ParseFloatLoop(s, i + 1, n * 10 + DigitVal(c),
                             IF afterDot THEN d * 10 ELSE d, afterDot)

TokenToFloat(token) == ParseFloatLoop(token.value, 1, 0, 1, FALSE)

(***************************************************************************)
(* AST nodes (the frontend's node structs).  Nil is a nil Expr.            *)
(***************************************************************************)
Nil == [kind |-> "nil"]

VarDeclaration(c, id, v) ==
    [kind |-> "VarDeclaration", constant |-> c, identifier |-> id, value |-> v]

FunctionDeclaration(n, ps, b) ==
    [kind |-> "FunctionDeclaration", name |-> n, parameters |-> ps, body |-> b]

IfStmt(c, b) == [kind |-> "IfStmt", condition |-> c, body |-> b]

WhileStmt(c, b) == [kind |-> "WhileStmt", condition |-> c, body |-> b]

ForStmt(c, b) == [kind |-> "ForStmt", condition |-> c, body |-> b]

ReturnStmt(v) == [kind |-> "ReturnStmt", value |-> v]

AssignmentExpr(a, v) == [kind |-> "AssignmentExpr", assignee |-> a, value |-> v]

CallExpr(c, as) == [kind |-> "CallExpr", args |-> as, caller |-> c]

MemberExpr(o, p, c) ==
    [kind |-> "MemberExpr", object |-> o, property |-> p, computed |-> c]

LogicalExpr(l, r, op) ==
    [kind |-> "LogicalExpr", left |-> l, right |-> r, operator |-> op]

BinaryExpr(l, r, op) ==
    [kind |-> "BinaryExpr", left |-> l, right |-> r, operator |-> op]

UnaryExpr(op, e) == [kind |-> "UnaryExpr", operant |-> e, operator |-> op]

NumericLiteral(v) == [kind |-> "NumericLiteral", value |-> v]

StringLiteral(v) == [kind |-> "StringLiteral", value |-> v]

Identifier(s) == [kind |-> "Identifier", symbol |-> s]

Property(k, v) == [key |-> k, value |-> v]

ObjectLiteral(ps) == [kind |-> "ObjectLiteral", properties |-> ps]

(***************************************************************************)
(* Parser.  The token list is fixed during a parse; i is tokenIndex + 1.   *)
(* advance() moves tokenIndex and leaves currentToken alone once the index *)
(* is past the list, so the current token is the last one from then on.    *)
(***************************************************************************)
\* a current token that is an empty IDENT once the index is past the list
CurPastEnd(toks, i) ==
    IF i <= Len(toks) THEN toks[i] ELSE [toks[Len(toks)] EXCEPT !.tokenType = "IDENT"]

Cur(toks, i) == toks[IF i <= Len(toks) THEN i ELSE Len(toks)]

NoErr == [message |-> "", pos |-> Position(0, 0)]

ParsingError(msg, pos) == [message |-> msg, pos |-> pos]

\* ParsingError.Error()
ParsingErrorString(e) ==
    "Parse Error at (" \o ToString(e.pos.line) \o ", " \o ToString(e.pos.column)
    \o "): " \o e.message

\* a parse function's return: (node, nil) or (nil, err), and the index reached
POk(node, i) == [ok |-> TRUE, node |-> node, i |-> i, err |-> NoErr]

PErr(msg, pos, i) == [ok |-> FALSE, node |-> Nil, i |-> i, err |-> ParsingError(msg, pos)]

\* expect eats the current token whatever it is
expect(toks, i, expectedType, errMsg) ==
    LET token == Cur(toks, i) IN
    IF token.tokenType # expectedType
    THEN [ok |-> FALSE, token |-> token, i |-> i + 1,
          err |-> ParsingError("Parsing Error: " \o errMsg, token.pos)]
    ELSE [ok |-> TRUE, token |-> token, i |-> i + 1, err |-> NoErr]

Fail(r) == [ok |-> FALSE, node |-> Nil, i |-> r.i, err |-> r.err]

RECURSIVE parseStmt(_, _), parseExpr(_, _), parseAdditive(_, _), parseMulti(_, _),
          parsePrimary(_, _), parseVarDeclaration(_, _), parseAssignmentExpr(_, _),
          parseObjectExpr(_, _), parseObjectLoop(_, _, _), parseCallMemberExpr(_, _),
          parseCallExpr(_, _, _), parseArguments(_, _), parseArgumentsLoop(_, _, _),
          parseMemberExpr(_, _), parseMemberLoop(_, _, _),
          parseFunctionDeclaration(_, _), parseLogicalExpr(_, _),
          parseEqualityExpr(_, _), parseRelationalExpr(_, _), parseIfStmt(_, _),
          parseWhileStmt(_, _), parseForStmt(_, _), parseReturnStmt(_, _),
          parseBody(_, _, _), parseLeftAssoc(_, _, _, _, _, _), method(_, _, _)

\* the loop shared by the binary levels: while the current token is one of
\* ops, eat it, parse the right operand with the method sub, one level down,
\* and fold to the left
parseLeftAssoc(toks, left, i, ops, sub, kind) ==
    IF Cur(toks, i).tokenType \in ops
    THEN LET operator == Cur(toks, i).value
             right == method(sub, toks, i + 1)
         IN IF ~right.ok THEN right
            ELSE parseLeftAssoc(toks,
                    IF kind = "BinaryExpr" THEN BinaryExpr(left, right.node, operator)
                    ELSE LogicalExpr(left, right.node, operator),
                    right.i, ops, sub, kind)
    ELSE POk(left, i)

parseStmt(toks, i) ==
    LET t == Cur(toks, i).tokenType IN
    CASE t \in {"VAR", "CONST"} -> method("parseVarDeclaration", toks, i)
      [] t = "FUN" -> method("parseFunctionDeclaration", toks, i)
      [] t = "IF" -> method("parseIfStmt", toks, i)
      [] t = "WHILE" -> method("parseWhileStmt", toks, i)
      [] t = "FOR" -> method("parseForStmt", toks, i)
      [] t = "RETURN" -> method("parseReturnStmt", toks, i)
      [] OTHER -> method("parseExpr", toks, i)

parseExpr(toks, i) == parseAssignmentExpr(toks, i)

\* a parseAdditive that takes * / % at its own level
parseAdditiveFlat(toks, i) ==
    LET left == method("parseCallMemberExpr", toks, i) IN
    IF ~left.ok THEN left
    ELSE parseLeftAssoc(toks, left.node, left.i, {"ADD", "SUB", "MUL", "DIV", "MOD"},
                        "parseCallMemberExpr", "BinaryExpr")

parseAdditive(toks, i) ==
    LET left == method("parseMulti", toks, i) IN
    IF ~left.ok THEN left
    ELSE parseLeftAssoc(toks, left.node, left.i, {"ADD", "SUB"}, "parseMulti", "BinaryExpr")

parseMulti(toks, i) ==
    LET left == method("parseCallMemberExpr", toks, i) IN
    IF ~left.ok THEN left
    ELSE parseLeftAssoc(toks, left.node, left.i, {"MUL", "DIV", "MOD"},
                        "parseCallMemberExpr", "BinaryExpr")

parsePrimary(toks, i) ==
    LET tok == Cur(toks, i)
        tokenType == tok.tokenType
    IN
    IF tokenType = "NOT"
    THEN LET expr == method("parsePrimary", toks, i + 1) IN
         IF ~expr.ok THEN expr ELSE POk(UnaryExpr("!", expr.node), expr.i)
    ELSE CASE tokenType = "IDENT" -> POk(Identifier(tok.value), i + 1)
           [] tokenType \in {"INT", "FLOAT"} ->
                POk(NumericLiteral(TokenToFloat(tok)), i + 1)
           [] tokenType = "STRING" -> POk(StringLiteral(tok.value), i + 1)
           [] tokenType = "OPENPAREN" ->
                LET value == method("parseExpr", toks, i + 1) IN
                IF ~value.ok THEN value
                ELSE LET e == expect(toks, value.i, "CLOSEPAREN",
                                     "Expected closing parenthesis")
                     IN IF ~e.ok THEN Fail(e) ELSE POk(value.node, e.i)
           [] tokenType = "OPENCURLY" -> method("parseObjectExpr", toks, i)
           [] tokenType \in {"EOF", "CLOSEPAREN", "CLOSECURLY", "COMMA"} ->
                PErr("Expected an expression or value but found none", tok.pos, i)
           [] tokenType = "ILLEGAL" ->
                PErr("Illegal token passed \"" \o tok.value \o "\"", tok.pos, i)
           [] OTHER ->
                PErr("Unrecognized Primary Token (Type: " \o tokenType
                     \o ", Value: " \o tok.value \o ")", tok.pos, i)

parseVarDeclaration(toks, i) ==
    LET isConstant == Cur(toks, i).tokenType = "CONST"
        identifier == expect(toks, i + 1, "IDENT",
                             "Expected identifier name after var | const keyword")
    IN
    IF ~identifier.ok THEN Fail(identifier)
    ELSE IF Cur(toks, identifier.i).tokenType # "EQUALS"
    THEN IF isConstant
         THEN PErr("Uninitialized constant", Cur(toks, identifier.i).pos, identifier.i)
         ELSE POk(VarDeclaration(isConstant, identifier.token.value, Nil), identifier.i)
    ELSE LET value == method("parseExpr", toks, identifier.i + 1) IN
         IF ~value.ok THEN value
         ELSE POk(VarDeclaration(isConstant, identifier.token.value, value.node), value.i)

parseAssignmentExpr(toks, i) ==
    LET expr == method("parseLogicalExpr", toks, i) IN
    IF ~expr.ok THEN expr
    ELSE IF Cur(toks, expr.i).tokenType = "EQUALS"
    THEN LET value == method("parseAssignmentExpr", toks, expr.i + 1) IN
         IF ~value.ok THEN value
         ELSE POk(AssignmentExpr(expr.node, value.node), value.i)
    ELSE expr

\* the property loop of parseObjectExpr
parseObjectLoop(toks, i, properties) ==
    IF Cur(toks, i).tokenType \notin {"EOF", "CLOSECURLY"}
    THEN LET object == expect(toks, i, "IDENT", "Object missing identifier") IN
         IF ~object.ok THEN Fail(object)
         ELSE LET key == object.token.value
                  t1 == Cur(toks, object.i).tokenType
              IN
              IF t1 \in {"COMMA", "CLOSECURLY"}
              THEN parseObjectLoop(toks,
                       IF t1 = "COMMA" THEN object.i + 1 ELSE object.i,
                       Append(properties, Property(key, Nil)))
              ELSE LET colon == expect(toks, object.i, "COLON",
                                       "Missing colon after identifier")
                   IN
                   IF ~colon.ok THEN Fail(colon)
                   ELSE LET value == IF Cur(toks, colon.i).tokenType = "OPENCURLY"
                                     THEN method("parseObjectExpr", toks, colon.i)
                                     ELSE method("parseExpr", toks, colon.i)
                        IN
                        IF ~value.ok THEN value
                        ELSE LET props == Append(properties, Property(key, value.node)) IN
                             IF Cur(toks, value.i).tokenType # "CLOSECURLY"
                             THEN LET comma == expect(toks, value.i, "COMMA",
                                       "Expected comma or closing brace after property")
                                  IN IF ~comma.ok THEN Fail(comma)
                                     ELSE parseObjectLoop(toks, comma.i, props)
                             ELSE parseObjectLoop(toks, value.i, props)
    ELSE LET close == expect(toks, i, "CLOSECURLY", "Object literal missing closing brace")
         IN IF ~close.ok THEN Fail(close)
            ELSE POk(ObjectLiteral(properties), close.i)

parseObjectExpr(toks, i) ==
    IF Cur(toks, i).tokenType # "OPENCURLY" THEN method("parseAdditive", toks, i)
    ELSE parseObjectLoop(toks, i + 1, <<>>)

parseCallMemberExpr(toks, i) ==
    LET member == method("parseMemberExpr", toks, i) IN
    IF ~member.ok THEN member
    ELSE IF Cur(toks, member.i).tokenType = "OPENPAREN"
    THEN parseCallExpr(toks, member.i, member.node)
    ELSE member

parseCallExpr(toks, i, caller) ==
    LET arguments == method("parseArguments", toks, i) IN
    IF ~arguments.ok THEN arguments
    ELSE LET callExpr == CallExpr(caller, arguments.node) IN
         IF Cur(toks, arguments.i).tokenType = "OPENPAREN"
         THEN parseCallExpr(toks, arguments.i, callExpr)
         ELSE POk(callExpr, arguments.i)

\* the argument loop of parseArguments; the node of the result is the list
parseArgumentsLoop(toks, i, args) ==
    LET arg == method("parseExpr", toks, i) IN
    IF ~arg.ok THEN arg
    ELSE IF Cur(toks, arg.i).tokenType # "COMMA"
    THEN LET close == expect(toks, arg.i, "CLOSEPAREN", "Expected \")\"") IN
         IF ~close.ok THEN Fail(close)
         ELSE POk(Append(args, arg.node), close.i)
    ELSE parseArgumentsLoop(toks, arg.i + 1, Append(args, arg.node))

parseArguments(toks, i) ==
    LET open == expect(toks, i, "OPENPAREN", "Expected \"(\"") IN
    IF ~open.ok THEN Fail(open)
    ELSE IF Cur(toks, open.i).tokenType = "CLOSEPAREN" THEN POk(<<>>, open.i + 1)
    ELSE parseArgumentsLoop(toks, open.i, <<>>)

\* the suffix loop of parseMemberExpr; the result of expect(CLOSEBRACKET) is
\* dropped, so the token after a computed property is eaten whatever it is
parseMemberLoop(toks, i, object) ==
    IF Cur(toks, i).tokenType \in {"DOT", "OPENBRACKET"}
    THEN LET operator == Cur(toks, i) IN
         IF operator.tokenType = "DOT"
         THEN LET property == method("parsePrimary", toks, i + 1) IN
              IF ~property.ok THEN property
              ELSE IF property.node.kind # "Identifier"
              THEN PErr("Cannot use dot operator without having an identifier after it",
                        Cur(toks, property.i).pos, property.i)
              ELSE parseMemberLoop(toks, property.i,
                                   MemberExpr(object, property.node, FALSE))
         ELSE LET property == method("parseExpr", toks, i + 1) IN
              IF ~property.ok THEN property
              ELSE parseMemberLoop(toks, property.i + 1,
                                   MemberExpr(object, property.node, TRUE))
    ELSE POk(object, i)

parseMemberExpr(toks, i) ==
    LET object == method("parsePrimary", toks, i) IN
    IF ~object.ok THEN object
    ELSE parseMemberLoop(toks, object.i, object.node)

\* the statement loop of a function, if, while or for body, up to its "}"
parseBody(toks, i, body) ==
    IF Cur(toks, i).tokenType \notin {"EOF", "CLOSECURLY"}
    THEN LET stmt == method("parseStmt", toks, i) IN
         IF ~stmt.ok THEN stmt
         ELSE parseBody(toks, stmt.i, Append(body, stmt.node))
    ELSE POk(body, i)

AllIdentifiers(args) == \A k \in 1..Len(args) : args[k].kind = "Identifier"

parseFunctionDeclaration(toks, i) ==
    LET name == expect(toks, i + 1, "IDENT", "Expected function name after keyword \"fun\"")
    IN
    IF ~name.ok THEN Fail(name)
    ELSE LET args == method("parseArguments", toks, name.i) IN
         IF ~args.ok THEN args
         ELSE IF ~AllIdentifiers(args.node)
         THEN PErr("Expected parameter inside function declaration", name.token.pos, args.i)
         ELSE LET params == [k \in 1..Len(args.node) |-> args.node[k].symbol]
                  open == expect(toks, args.i, "OPENCURLY", "Expected \"{\"")
              IN
              IF ~open.ok THEN Fail(open)
              ELSE LET body == parseBody(toks, open.i, <<>>) IN
                   IF ~body.ok THEN body
                   ELSE LET close == expect(toks, body.i, "CLOSECURLY", "Expected \"}\"")
                        IN IF ~close.ok THEN Fail(close)
                           ELSE POk(FunctionDeclaration(name.token.value, params,
                                                        body.node), close.i)

parseLogicalExpr(toks, i) ==
    LET left == method("parseEqualityExpr", toks, i) IN
    IF ~left.ok THEN left
    ELSE parseLeftAssoc(toks, left.node, left.i, {"AND", "OR"}, "parseEqualityExpr", "LogicalExpr")

parseEqualityExpr(toks, i) ==
    LET left == method("parseRelationalExpr", toks, i) IN
    IF ~left.ok THEN left
    ELSE parseLeftAssoc(toks, left.node, left.i, {"DE", "NE"}, "parseRelationalExpr", "LogicalExpr")

parseRelationalExpr(toks, i) ==
    LET left == method("parseAdditive", toks, i) IN
    IF ~left.ok THEN left
    ELSE parseLeftAssoc(toks, left.node, left.i, {"LT", "GT", "LTE", "GTE"},
                        "parseAdditive", "LogicalExpr")

\* the shape shared by parseIfStmt, parseWhileStmt and parseForStmt:
\* KW '(' expr ')' '{' stmt* '}'; the four words are those of the messages
parseGuarded(toks, i, kw, word, beginWord, closeWord) ==
    LET k == expect(toks, i, kw, "Expected '" \o word \o "' keyword") IN
    IF ~k.ok THEN Fail(k)
    ELSE LET open == expect(toks, k.i, "OPENPAREN", "Expected '(' after '" \o word \o "'")
         IN
         IF ~open.ok THEN Fail(open)
         ELSE LET condition == method("parseExpr", toks, open.i) IN
              IF ~condition.ok THEN condition
              ELSE LET close == expect(toks, condition.i, "CLOSEPAREN",
                                       "Expected ')' after " \o word \o " condition")
                   IN
                   IF ~close.ok THEN Fail(close)
                   ELSE LET curly == expect(toks, close.i, "OPENCURLY",
                                "Expected '{' to begin " \o beginWord \o " body")
                        IN
                        IF ~curly.ok THEN Fail(curly)
                        ELSE LET body == parseBody(toks, curly.i, <<>>) IN
                             IF ~body.ok THEN body
                             ELSE LET end == expect(toks, body.i, "CLOSECURLY",
                                          "Expected '}' to close " \o closeWord \o " body")
                                  IN IF ~end.ok THEN Fail(end)
                                     ELSE POk([condition |-> condition.node,
                                               body |-> body.node], end.i)

parseIfStmt(toks, i) ==
    LET g == parseGuarded(toks, i, "IF", "if", "if statement", "if statement") IN
    IF ~g.ok THEN g ELSE POk(IfStmt(g.node.condition, g.node.body), g.i)

parseWhileStmt(toks, i) ==
    LET g == parseGuarded(toks, i, "WHILE", "while", "while loop", "while loop") IN
    IF ~g.ok THEN g ELSE POk(WhileStmt(g.node.condition, g.node.body), g.i)

parseForStmt(toks, i) ==
    LET g == parseGuarded(toks, i, "FOR", "for", "for loop", "while loop") IN
    IF ~g.ok THEN g ELSE POk(ForStmt(g.node.condition, g.node.body), g.i)

parseReturnStmt(toks, i) ==
    LET r == expect(toks, i, "RETURN", "Expected 'return' keyword") IN
    IF ~r.ok THEN Fail(r)
    ELSE IF Cur(toks, r.i).tokenType \in {"CLOSECURLY", "EOF"}
    THEN POk(ReturnStmt(Nil), r.i)
    ELSE LET expr == method("parseExpr", toks, r.i) IN
         IF ~expr.ok THEN expr ELSE POk(ReturnStmt(expr.node), expr.i)

\* a call of the method of the Parser of the given name
method(name, toks, i) ==
    CASE name = "parseStmt" -> parseStmt(toks, i)
      [] name = "parseExpr" -> parseExpr(toks, i)
      [] name = "parseAdditive" -> parseAdditive(toks, i)
      [] name = "parseMulti" -> parseMulti(toks, i)
      [] name = "parsePrimary" -> parsePrimary(toks, i)
      [] name = "parseVarDeclaration" -> parseVarDeclaration(toks, i)
      [] name = "parseAssignmentExpr" -> parseAssignmentExpr(toks, i)
      [] name = "parseObjectExpr" -> parseObjectExpr(toks, i)
      [] name = "parseCallMemberExpr" -> parseCallMemberExpr(toks, i)
      [] name = "parseArguments" -> parseArguments(toks, i)
      [] name = "parseMemberExpr" -> parseMemberExpr(toks, i)
      [] name = "parseFunctionDeclaration" -> parseFunctionDeclaration(toks, i)
      [] name = "parseLogicalExpr" -> parseLogicalExpr(toks, i)
      [] name = "parseEqualityExpr" -> parseEqualityExpr(toks, i)
      [] name = "parseRelationalExpr" -> parseRelationalExpr(toks, i)
      [] name = "parseIfStmt" -> parseIfStmt(toks, i)
      [] name = "parseWhileStmt" -> parseWhileStmt(toks, i)
      [] name = "parseForStmt" -> parseForStmt(toks, i)
      [] name = "parseReturnStmt" -> parseReturnStmt(toks, i)

(***************************************************************************)
(* Runtime values (runtime/values.go).  GoNil is a nil RuntimeVal.         *)
(***************************************************************************)
NumberVal(x) == [t |-> "Number", num |-> x.num, den |-> x.den]

StringVal(s) == [t |-> "String", s |-> s]

NadaVal == [t |-> "Nada"]

BoolVal(b) == [t |-> "Bool", b |-> b]

ObjectVal(props) == [t |-> "Object", props |-> props]

NativeFunctionValue(name) == [t |-> "NativeFunction", name |-> name]

UserFunctionValue(name, params, denv, body) ==
    [t |-> "UserFunction", name |-> name, params |-> params, denv |-> denv, body |-> body]

ReturnValue(v) == [t |-> "ReturnSignal", val |-> v]

GoNil == [t |-> "nil"]

\* the value type a value reports; StringVal.ValueType returns NumberType
ValueType(v) ==
    CASE v.t = "String" -> "Number"
      [] OTHER -> v.t

\* the digits of the fractional part r/d, at most k of them
RECURSIVE FracDigits(_, _, _)
FracDigits(r, d, k) ==
    IF r = 0 \/ k = 0 THEN ""
    ELSE ToString((r * 10) \div d) \o FracDigits((r * 10) % d, d, k - 1)

\* strconv.FormatFloat(x, 'f', -1, 64)
FormatFloat(x) ==
    LET a == Abs(x.num)
        whole == ToString(a \div x.den)
        frac == FracDigits(a % x.den, x.den, 6)
    IN (IF x.num < 0 THEN "-" ELSE "") \o whole
       \o (IF frac = "" THEN "" ELSE "." \o frac)

\* the String() methods
RECURSIVE String(_)
String(v) ==
    CASE v.t = "Number" -> FormatFloat(v)
      [] v.t = "String" -> v.s
      [] v.t = "Nada" -> "nada"
      [] v.t = "Bool" -> IF v.b THEN "true" ELSE "false"
      [] v.t = "Object" -> "User Object ()"
      [] v.t = "NativeFunction" -> "Native Function (" \o v.name \o ")"
      [] v.t = "UserFunction" -> "User Function (" \o v.name \o ")"
      [] v.t = "ReturnSignal" ->
            IF v.val.t = "nil" THEN "return <nil>" ELSE "return " \o String(v.val)
      [] OTHER -> "<nil>"

(***************************************************************************)
(* Environments.  The heap of Environment structs is a sequence; a pointer *)
(* is an index into it and 0 is the nil pointer.  A Go map is a function   *)
(* whose domain is the set of keys present.                                *)
(***************************************************************************)
EmptyMap == [x \in {} |-> GoNil]

MapPut(m, k, v) == [x \in (DOMAIN m) \cup {k} |-> IF x = k THEN v ELSE m[x]]

Environment(parent) ==
    [global |-> parent = 0, parent |-> parent, variables |-> EmptyMap, constants |-> {}]

setVar(envs, e, name, value) ==
    [envs EXCEPT ![e].variables = MapPut(@, name, value)]

\* a DeclareVar without the `exists` test: the new binding replaces the old
DeclareVarOverwriting(envs, e, varName, value, constant) ==
    LET set == setVar(envs, e, varName, value) IN
    [k |-> "ok",
     envs |-> IF constant
              THEN [set EXCEPT ![e].constants = @ \cup {varName}]
              ELSE [set EXCEPT ![e].constants = @ \ {varName}],
     msg |-> ""]

\* DeclareVar: (value, nil), or (nil, err) leaving the environment alone
DeclareVar(envs, e, varName, value, constant) ==
    IF varName \in DOMAIN envs[e].variables
    THEN [k |-> "err", envs |-> envs,
          msg |-> "Interpretation Error: Variable " \o varName
                  \o " already defined, cannot redeclare"]
    ELSE LET set == setVar(envs, e, varName, value) IN
         [k |-> "ok",
          envs |-> IF constant
                   THEN [set EXCEPT ![e].constants = @ \cup {varName}]
                   ELSE set,
          msg |-> ""]

\* resolve: the nearest environment of the chain that declares varName;
\* 0 stands for the panic "Variable ... does not exist"
RECURSIVE resolve(_, _, _)
resolve(envs, e, varName) ==
    IF varName \in DOMAIN envs[e].variables THEN e
    ELSE IF envs[e].parent = 0 THEN 0
    ELSE resolve(envs, envs[e].parent, varName)

\* an AssignVal without the test of the constants set
AssignValUnguarded(envs, e, varName, value) ==
    LET resolvedEnv == resolve(envs, e, varName) IN
    IF resolvedEnv = 0
    THEN [k |-> "panic", envs |-> envs, msg |-> "Variable " \o varName \o " does not exist"]
    ELSE [k |-> "ok", envs |-> setVar(envs, resolvedEnv, varName, value), msg |-> ""]

\* an AssignVal that tests the constants set of the environment it is
\* called on, not the one of the environment that holds the binding
AssignValGuardingCaller(envs, e, varName, value) ==
    LET resolvedEnv == resolve(envs, e, varName) IN
    IF resolvedEnv = 0
    THEN [k |-> "panic", envs |-> envs, msg |-> "Variable " \o varName \o " does not exist"]
    ELSE IF varName \in envs[e].constants
    THEN [k |-> "err", envs |-> envs,
          msg |-> "Interpretation Error: Cannot assign to constant variable: " \o varName]
    ELSE [k |-> "ok", envs |-> setVar(envs, resolvedEnv, varName, value), msg |-> ""]

AssignVal(envs, e, varName, value) ==
    LET resolvedEnv == resolve(envs, e, varName) IN
    IF resolvedEnv = 0
    THEN [k |-> "panic", envs |-> envs, msg |-> "Variable " \o varName \o " does not exist"]
    ELSE IF varName \in envs[resolvedEnv].constants
    THEN [k |-> "err", envs |-> envs,
          msg |-> "Interpretation Error: Cannot assign to constant variable: " \o varName]
    ELSE [k |-> "ok", envs |-> setVar(envs, resolvedEnv, varName, value), msg |-> ""]

LookupVar(envs, e, varName) ==
    LET resolvedEnv == resolve(envs, e, varName) IN
    IF resolvedEnv = 0
    THEN [k |-> "panic", v |-> GoNil, msg |-> "Variable " \o varName \o " does not exist"]
    ELSE [k |-> "ok", v |-> envs[resolvedEnv].variables[varName], msg |-> ""]

\* the declarations of setupGlobalScope, in order, on environment e
setupGlobalScope(envs, e) ==
    LET e1 == DeclareVar(envs, e, "nada", NadaVal, TRUE).envs
        e2 == DeclareVar(e1, e, "true", BoolVal(TRUE), TRUE).envs
        e3 == DeclareVar(e2, e, "false", BoolVal(FALSE), TRUE).envs
    IN DeclareVar(e3, e, "print", NativeFunctionValue("print"), TRUE).envs

\* NewEnvironment: the heap with the new environment appended (its pointer
\* is the new length)
NewEnvironment(envs, parentEnv) ==
    LET e == Environment(parentEnv)
        heap == Append(envs, e)
    IN IF e.global THEN setupGlobalScope(heap, Len(heap)) ELSE heap

(***************************************************************************)
(* Evaluator.  An evaluation threads st: the environment heap, the lines   *)
(* print has written, a log of the assignments and declarations made, and  *)
(* the steps left.  Its result is (value, nil) as k = "ok", (nil, err) as  *)
(* k = "err", a Go panic as k = "panic", and k = "spin" when the steps ran *)
(* out, which stands for an evaluation that has not returned.              *)
(***************************************************************************)
ROk(v, st) == [k |-> "ok", v |-> v, st |-> st, msg |-> ""]

RErr(msg, st) == [k |-> "err", v |-> GoNil, st |-> st, msg |-> msg]

RPanic(msg, st) == [k |-> "panic", v |-> GoNil, st |-> st, msg |-> msg]

RSpin(st) == [k |-> "spin", v |-> GoNil, st |-> st, msg |-> ""]

InterpretingError(message) == "Interpretation Error: " \o message

Tick(st) == [st EXCEPT !.fuel = @ - 1]

Logged(r, event) == [r EXCEPT !.st.log = Append(@, event)]

isTruthy(val) ==
    CASE val.t = "Bool" -> val.b
      [] val.t = "Number" -> val.num # 0
      [] val.t = "Nada" -> FALSE
      [] OTHER -> val.t # "nil"

RECURSIVE deepEqual(_, _), objectsEqual(_, _)

\* an objectsEqual without the comparison of the two lengths
objectsEqualOneSided(a, b) ==
    \A key \in DOMAIN a : key \in DOMAIN b /\ deepEqual(a[key], b[key])

objectsEqual(a, b) ==
    IF Cardinality(DOMAIN a) # Cardinality(DOMAIN b) THEN FALSE
    ELSE \A key \in DOMAIN a : key \in DOMAIN b /\ deepEqual(a[key], b[key])

deepEqual(a, b) ==
    IF a.t = "nil" /\ b.t = "nil" THEN TRUE
    ELSE IF a.t = "nil" \/ b.t = "nil" THEN FALSE
    ELSE CASE a.t = "Number" -> b.t = "Number" /\ a.num = b.num /\ a.den = b.den
           [] a.t = "Bool" -> b.t = "Bool" /\ a.b = b.b
           [] a.t = "Nada" -> b.t = "Nada"
           [] a.t = "Object" -> b.t = "Object" /\ objectsEqual(a.props, b.props)
           [] OTHER -> FALSE

lessThan(a, b) ==
    a.t = "Number" /\ b.t = "Number" /\ a.num * b.den < b.num * a.den

lessEqual(a, b) ==
    a.t = "Number" /\ b.t = "Number" /\ a.num * b.den <= b.num * a.den

greaterThan(a, b) ==
    a.t = "Number" /\ b.t = "Number" /\ a.num * b.den > b.num * a.den

greaterEqual(a, b) ==
    a.t = "Number" /\ b.t = "Number" /\ a.num * b.den >= b.num * a.den

\* the operator switch of evalLogicalExpr, both operands in hand
LogicalSwitch(operator, leftSide, rightSide, st) ==
    CASE operator = "and" -> ROk(BoolVal(isTruthy(leftSide) /\ isTruthy(rightSide)), st)
      [] operator = "or" -> ROk(BoolVal(isTruthy(leftSide) \/ isTruthy(rightSide)), st)
      [] operator = "not" -> ROk(BoolVal(~isTruthy(leftSide)), st)
      [] operator = "==" -> ROk(BoolVal(deepEqual(leftSide, rightSide)), st)
      [] operator = "!=" -> ROk(BoolVal(~deepEqual(leftSide, rightSide)), st)
      [] operator = "<" -> ROk(BoolVal(lessThan(leftSide, rightSide)), st)
      [] operator = "<=" -> ROk(BoolVal(lessEqual(leftSide, rightSide)), st)
      [] operator = ">" -> ROk(BoolVal(greaterThan(leftSide, rightSide)), st)
      [] operator = ">=" -> ROk(BoolVal(greaterEqual(leftSide, rightSide)), st)
      [] OTHER -> RErr("unknown logical operator: " \o operator, st)

\* Go's % on ints: the remainder has the sign of the dividend
GoRem(a, b) == IF a >= 0 THEN a % Abs(b) ELSE 0 - ((0 - a) % Abs(b))

evalNumericBinaryExpr(leftSide, rightSide, operator, st) ==
    CASE operator = "+" ->
            ROk(NumberVal(Rat(leftSide.num * rightSide.den + rightSide.num * leftSide.den,
                              leftSide.den * rightSide.den)), st)
      [] operator = "-" ->
            ROk(NumberVal(Rat(leftSide.num * rightSide.den - rightSide.num * leftSide.den,
                              leftSide.den * rightSide.den)), st)
      [] operator = "*" ->
            ROk(NumberVal(Rat(leftSide.num * rightSide.num,
                              leftSide.den * rightSide.den)), st)
      [] operator = "/" ->
            IF rightSide.num = 0 THEN ROk(NumberVal(Rat(0, 1)), st)
            ELSE ROk(NumberVal(Rat(leftSide.num * rightSide.den,
                                   leftSide.den * rightSide.num)), st)
      [] operator = "%" ->
            LET leftInt == Trunc(leftSide)
                rightInt == Trunc(rightSide)
            IN IF rightInt = 0
               THEN RPanic("runtime error: integer divide by zero", st)
               ELSE ROk(NumberVal(Rat(GoRem(leftInt, rightInt), 1)), st)
      [] OTHER -> RErr(InterpretingError("Unknown operator " \o operator), st)

\* result is the zero float64 when "!" tests it, so "!" always yields 1
evalNumericUnaryExpr(operant, operator) ==
    CASE operator = "-" -> NumberVal(Rat(0 - operant.num, operant.den))
      [] operator = "!" -> LET result == Rat(0, 1) IN
                           IF result.num = 0 THEN NumberVal(Rat(1, 1))
                           ELSE NumberVal(Rat(0, 1))
      [] OTHER -> operant

\* the built-in print: the arguments' String() forms joined, one line
RECURSIVE JoinStrings(_)
JoinStrings(args) ==
    IF Len(args) = 0 THEN "" ELSE String(Head(args)) \o JoinStrings(Tail(args))

NativeCall(name, args, st) ==
    [k |-> "ok", v |-> NadaVal, st |-> [st EXCEPT !.out = Append(@, JoinStrings(args))],
     msg |-> ""]

RECURSIVE BindParameters(_, _, _, _, _)
\* a parameter loop that declares the parameters as constants
BindParametersConstant(envs, scope, params, args, i) ==
    IF i > Len(params) THEN envs
    ELSE BindParameters(DeclareVar(envs, scope, params[i], args[i], TRUE).envs,
                        scope, params, args, i + 1)

\* the parameter loop of evalCallExpr: DeclareVar's error is dropped
BindParameters(envs, scope, params, args, i) ==
    IF i > Len(params) THEN envs
    ELSE BindParameters(DeclareVar(envs, scope, params[i], args[i], FALSE).envs,
                        scope, params, args, i + 1)

RECURSIVE Evaluate(_, _, _), evalLogicalExpr(_, _, _), evalBinaryExpr(_, _, _),
          evalUnaryExpr(_, _, _), evalIdentifier(_, _, _), evalObjectExpr(_, _, _),
          evalObjectLoop(_, _, _, _, _), evalMemberExpr(_, _, _),
          evalAssignmentExpr(_, _, _), evalCallExpr(_, _, _),
          evalArgsLoop(_, _, _, _, _), evalCallBody(_, _, _, _),
          evalVarDeclaration(_, _, _), evalFunctionDeclaration(_, _, _),
          evalIfStmt(_, _, _), evalIfBody(_, _, _, _, _), evalWhileStmt(_, _, _),
          evalWhileLoop(_, _, _, _), evalLoopBody(_, _, _, _, _),
          evalForStmt(_, _, _), evalForLoop(_, _, _, _, _, _), evalReturnStmt(_, _, _)

\* an evalLogicalExpr that skips the right operand of `and` and `or` when
\* the left operand decides the result
evalLogicalExprShortCircuit(logicOp, env, st) ==
    LET leftSide == Evaluate(logicOp.left, env, st) IN
    IF leftSide.k # "ok" THEN leftSide
    ELSE IF logicOp.operator = "and" /\ ~isTruthy(leftSide.v)
    THEN ROk(BoolVal(FALSE), leftSide.st)
    ELSE IF logicOp.operator = "or" /\ isTruthy(leftSide.v)
    THEN ROk(BoolVal(TRUE), leftSide.st)
    ELSE LET rightSide == Evaluate(logicOp.right, env, leftSide.st) IN
         IF rightSide.k # "ok" THEN rightSide
         ELSE LogicalSwitch(logicOp.operator, leftSide.v, rightSide.v, rightSide.st)

evalLogicalExpr(logicOp, env, st) ==
    LET leftSide == Evaluate(logicOp.left, env, st) IN
    IF leftSide.k # "ok" THEN leftSide
    ELSE LET rightSide == Evaluate(logicOp.right, env, leftSide.st) IN
         IF rightSide.k # "ok" THEN rightSide
         ELSE LogicalSwitch(logicOp.operator, leftSide.v, rightSide.v, rightSide.st)

evalBinaryExpr(binOp, env, st) ==
    LET leftSide == Evaluate(binOp.left, env, st) IN
    IF leftSide.k # "ok" THEN leftSide
    ELSE LET rightSide == Evaluate(binOp.right, env, leftSide.st) IN
         IF rightSide.k # "ok" THEN rightSide
         ELSE IF leftSide.v.t = "Number" /\ rightSide.v.t = "Number"
         THEN evalNumericBinaryExpr(leftSide.v, rightSide.v, binOp.operator, rightSide.st)
         ELSE ROk(NadaVal, rightSide.st)

evalUnaryExpr(uOp, env, st) ==
    LET operant == Evaluate(uOp.operant, env, st) IN
    IF operant.k # "ok" THEN operant
    ELSE IF operant.v.t = "Number"
    THEN ROk(evalNumericUnaryExpr(operant.v, uOp.operator), operant.st)
    ELSE ROk(NadaVal, operant.st)

evalIdentifier(ident, env, st) ==
    LET value == LookupVar(st.envs, env, ident.symbol) IN
    IF value.k = "panic" THEN RPanic(value.msg, st) ELSE ROk(value.v, st)

\* the property loop of evalObjectExpr
evalObjectLoop(properties, i, object, env, st) ==
    IF i > Len(properties) THEN ROk(ObjectVal(object), st)
    ELSE LET property == properties[i]
             runtimeVal == IF property.value.kind = "nil"
                           THEN evalIdentifier(Identifier(property.key), env, st)
                           ELSE Evaluate(property.value, env, st)
         IN IF runtimeVal.k # "ok" THEN runtimeVal
            ELSE evalObjectLoop(properties, i + 1,
                                MapPut(object, property.key, runtimeVal.v),
                                env, runtimeVal.st)

evalObjectExpr(obj, env, st) == evalObjectLoop(obj.properties, 1, EmptyMap, env, st)

evalMemberExpr(expr, env, st) ==
    LET objVal == Evaluate(expr.object, env, st) IN
    IF objVal.k # "ok" THEN objVal
    ELSE IF objVal.v.t # "Object"
    THEN RErr("Attempted to access property of non-object value: " \o String(objVal.v),
              objVal.st)
    ELSE LET obj == objVal.v.props
             found(key, s) == IF key \in DOMAIN obj THEN ROk(obj[key], s)
                              ELSE ROk(NadaVal, s)
         IN
         IF expr.computed
         THEN LET propVal == Evaluate(expr.property, env, objVal.st) IN
              IF propVal.k # "ok" THEN propVal
              ELSE CASE propVal.v.t = "String" -> found(propVal.v.s, propVal.st)
                     [] propVal.v.t = "Number" -> found(FormatFloat(propVal.v), propVal.st)
                     [] OTHER -> RErr("Invalid computed property key type: "
                                      \o propVal.v.t, propVal.st)
         ELSE IF expr.property.kind # "Identifier"
         THEN RErr("Expected Identifier for non-computed property, got "
                   \o expr.property.kind, objVal.st)
         ELSE found(expr.property.symbol, objVal.st)

evalAssignmentExpr(node, env, st) ==
    IF node.assignee.kind # "Identifier"
    THEN RPanic("Invalid left side of assignemt", st)
    ELSE LET assigneeName == node.assignee.symbol
             assigneeValue == Evaluate(node.value, env, st)
             event(r) == [e |-> "assign", name |-> assigneeName, scope |-> env,
                          pre |-> st.envs, rhs |-> assigneeValue.k,
                          mid |-> assigneeValue.st.envs, k |-> r.k, msg |-> r.msg,
                          post |-> r.st.envs]
         IN
         IF assigneeValue.k # "ok" THEN Logged(assigneeValue, event(assigneeValue))
         ELSE LET valueToReturn == AssignVal(assigneeValue.st.envs, env, assigneeName,
                                             assigneeValue.v)
                  s1 == [assigneeValue.st EXCEPT !.envs = valueToReturn.envs]
                  r == CASE valueToReturn.k = "ok" -> ROk(assigneeValue.v, s1)
                         [] valueToReturn.k = "err" -> RErr(valueToReturn.msg, s1)
                         [] OTHER -> RPanic(valueToReturn.msg, s1)
              IN Logged(r, event(r))

\* the argument loop of evalCallExpr; the value of the result is the list
evalArgsLoop(exprs, i, args, env, st) ==
    IF i > Len(exprs) THEN ROk(args, st)
    ELSE LET arg == Evaluate(exprs[i], env, st) IN
         IF arg.k # "ok" THEN arg
         ELSE evalArgsLoop(exprs, i + 1, Append(args, arg.v), env, arg.st)

\* an evalCallBody that hands the ReturnValue itself to the caller
evalCallBodyKeepsSignal(body, i, scope, st) ==
    IF i > Len(body) THEN ROk(NadaVal, st)
    ELSE LET result == Evaluate(body[i], scope, st) IN
         IF result.k # "ok" THEN result
         ELSE IF result.v.t = "ReturnSignal" THEN ROk(result.v, result.st)
         ELSE evalCallBody(body, i + 1, scope, result.st)

\* the statement loop of a user function call
evalCallBody(body, i, scope, st) ==
    IF i > Len(body) THEN ROk(NadaVal, st)
    ELSE LET result == Evaluate(body[i], scope, st) IN
         IF result.k # "ok" THEN result
         ELSE IF result.v.t = "ReturnSignal" THEN ROk(result.v.val, result.st)
         ELSE evalCallBody(body, i + 1, scope, result.st)

\* an evalCallExpr whose new scope has the caller's environment as parent
evalCallExprDynamic(expr, env, st) ==
    LET args == evalArgsLoop(expr.args, 1, <<>>, env, st) IN
    IF args.k # "ok" THEN args
    ELSE LET fn == Evaluate(expr.caller, env, args.st) IN
         IF fn.k # "ok" THEN fn
         ELSE CASE fn.v.t = "NativeFunction" ->
                     LET result == NativeCall(fn.v.name, args.v, fn.st) IN
                     Logged(result, [e |-> "native", name |-> fn.v.name,
                                     args |-> args.v, v |-> result.v])
                [] fn.v.t = "UserFunction" ->
                     IF fn.st.fuel = 0 THEN RSpin(fn.st)
                     ELSE LET heap == NewEnvironment(fn.st.envs, env)
                              scope == Len(heap)
                              s1 == [Tick(fn.st) EXCEPT !.envs = heap]
                              event(r) == [e |-> "call", name |-> fn.v.name, caller |-> env,
                                           denv |-> fn.v.denv, scope |-> scope, k |-> r.k,
                                           args |-> args.v, v |-> r.v,
                                           params |-> fn.v.params, pre |-> fn.st.envs,
                                           post |-> r.st.envs]
                          IN
                          IF Len(fn.v.params) # Len(args.v)
                          THEN LET r == RErr(InterpretingError(
                                   "Args do not match amount of parameters in function call for: "
                                   \o fn.v.name), s1)
                               IN Logged(r, event(r))
                          ELSE LET r == evalCallBody(fn.v.body, 1, scope,
                                           [s1 EXCEPT !.envs = BindParameters(heap, scope,
                                                                   fn.v.params, args.v, 1)])
                               IN Logged(r, event(r))
                [] OTHER -> RErr(InterpretingError(
                                "Cannot call value that is not a function: "
                                \o String(fn.v)), fn.st)

evalCallExpr(expr, env, st) ==
    LET args == evalArgsLoop(expr.args, 1, <<>>, env, st) IN
    IF args.k # "ok" THEN args
    ELSE LET fn == Evaluate(expr.caller, env, args.st) IN
         IF fn.k # "ok" THEN fn
         ELSE CASE fn.v.t = "NativeFunction" ->
                     LET result == NativeCall(fn.v.name, args.v, fn.st) IN
                     Logged(result, [e |-> "native", name |-> fn.v.name,
                                     args |-> args.v, v |-> result.v])
                [] fn.v.t = "UserFunction" ->
                     IF fn.st.fuel = 0 THEN RSpin(fn.st)
                     ELSE LET heap == NewEnvironment(fn.st.envs, fn.v.denv)
                              scope == Len(heap)
                              s1 == [Tick(fn.st) EXCEPT !.envs = heap]
                              event(r) == [e |-> "call", name |-> fn.v.name, caller |-> env,
                                           denv |-> fn.v.denv, scope |-> scope, k |-> r.k,
                                           args |-> args.v, v |-> r.v,
                                           params |-> fn.v.params, pre |-> fn.st.envs,
                                           post |-> r.st.envs]
                          IN
                          IF Len(fn.v.params) # Len(args.v)
                          THEN LET r == RErr(InterpretingError(
                                   "Args do not match amount of parameters in function call for: "
                                   \o fn.v.name), s1)
                               IN Logged(r, event(r))
                          ELSE LET r == evalCallBody(fn.v.body, 1, scope,
                                           [s1 EXCEPT !.envs = BindParameters(heap, scope,
                                                                   fn.v.params, args.v, 1)])
                               IN Logged(r, event(r))
                [] OTHER -> RErr(InterpretingError(
                                "Cannot call value that is not a function: "
                                \o String(fn.v)), fn.st)

evalVarDeclaration(declaration, env, st) ==
    LET evaluatedValue == IF declaration.value.kind = "nil" THEN ROk(NadaVal, st)
                          ELSE Evaluate(declaration.value, env, st)
        event(r) == [e |-> "declare", name |-> declaration.identifier, scope |-> env,
                     pre |-> st.envs, rhs |-> evaluatedValue.k,
                     mid |-> evaluatedValue.st.envs, k |-> r.k, msg |-> r.msg,
                     v |-> r.v, constant |-> declaration.constant,
                     post |-> r.st.envs]
    IN
    IF evaluatedValue.k # "ok" THEN Logged(evaluatedValue, event(evaluatedValue))
    ELSE LET d == DeclareVar(evaluatedValue.st.envs, env, declaration.identifier,
                             evaluatedValue.v, declaration.constant)
             s1 == [evaluatedValue.st EXCEPT !.envs = d.envs]
             r == IF d.k = "ok" THEN ROk(evaluatedValue.v, s1) ELSE RErr(d.msg, s1)
         IN Logged(r, event(r))

evalFunctionDeclaration(declaration, env, st) ==
    LET fn == UserFunctionValue(declaration.name, declaration.parameters, env,
                                declaration.body)
        d == DeclareVar(st.envs, env, declaration.name, fn, TRUE)
        s1 == [st EXCEPT !.envs = d.envs]
        r == IF d.k = "ok" THEN ROk(fn, s1) ELSE RErr(d.msg, s1)
    IN Logged(r, [e |-> "declare", name |-> declaration.name, scope |-> env,
                  pre |-> st.envs, rhs |-> "ok", mid |-> st.envs, k |-> r.k,
                  msg |-> r.msg, v |-> r.v, constant |-> TRUE, post |-> r.st.envs])

\* the statement loop of an if body: every statement runs, the last value stays
evalIfBody(body, i, lastEvaluated, env, st) ==
    IF i > Len(body) THEN ROk(lastEvaluated, st)
    ELSE LET s == Evaluate(body[i], env, st) IN
         IF s.k # "ok" THEN s
         ELSE evalIfBody(body, i + 1, s.v, env, s.st)

\* an evalIfStmt that runs the body in a new environment below env
evalIfStmtScoped(stmt, env, st) ==
    LET condVal == Evaluate(stmt.condition, env, st) IN
    IF condVal.k # "ok" THEN condVal
    ELSE IF condVal.v.t # "Bool"
    THEN RErr(InterpretingError("If statement condition must be a boolean"), condVal.st)
    ELSE IF condVal.v.b
    THEN LET heap == NewEnvironment(condVal.st.envs, env) IN
         evalIfBody(stmt.body, 1, NadaVal, Len(heap), [condVal.st EXCEPT !.envs = heap])
    ELSE ROk(NadaVal, condVal.st)

evalIfStmt(stmt, env, st) ==
    LET condVal == Evaluate(stmt.condition, env, st) IN
    IF condVal.k # "ok" THEN condVal
    ELSE IF condVal.v.t # "Bool"
    THEN RErr(InterpretingError("If statement condition must be a boolean"), condVal.st)
    ELSE IF condVal.v.b THEN evalIfBody(stmt.body, 1, NadaVal, env, condVal.st)
    ELSE ROk(NadaVal, condVal.st)

\* the statement loop of a while or for body: result is overwritten by each
\* statement and keeps its value over an empty body
evalLoopBody(body, i, result, env, st) ==
    IF i > Len(body) THEN ROk(result, st)
    ELSE LET s == Evaluate(body[i], env, st) IN
         IF s.k # "ok" THEN s
         ELSE evalLoopBody(body, i + 1, s.v, env, s.st)

evalWhileLoop(stmt, result, env, st) ==
    LET condVal == Evaluate(stmt.condition, env, st) IN
    IF condVal.k # "ok" THEN condVal
    ELSE IF condVal.v.t # "Bool"
    THEN RErr(InterpretingError("While loop condition must be a boolean"), condVal.st)
    ELSE IF ~condVal.v.b THEN ROk(result, condVal.st)
    ELSE IF condVal.st.fuel = 0 THEN RSpin(condVal.st)
    ELSE LET body == evalLoopBody(stmt.body, 1, result, env, Tick(condVal.st)) IN
         IF body.k # "ok" THEN body
         ELSE evalWhileLoop(stmt, body.v, env, body.st)

evalWhileStmt(stmt, env, st) == evalWhileLoop(stmt, NadaVal, env, st)

\* the counting loop of evalForStmt: i < int(numVal.Value)
evalForLoop(stmt, i, n, lastEvaluated, env, st) ==
    IF ~(i < n) THEN ROk(lastEvaluated, st)
    ELSE IF st.fuel = 0 THEN RSpin(st)
    ELSE LET body == evalLoopBody(stmt.body, 1, lastEvaluated, env, Tick(st)) IN
         IF body.k # "ok" THEN body
         ELSE evalForLoop(stmt, i + 1, n, body.v, env, body.st)

\* an evalForStmt that counts up to and including int(numVal.Value)
evalForStmtInclusive(stmt, env, st) ==
    LET countVal == Evaluate(stmt.condition, env, st) IN
    IF countVal.k # "ok" THEN countVal
    ELSE IF countVal.v.t # "Number"
    THEN RErr(InterpretingError("For loop count must evaluate to a number"), countVal.st)
    ELSE evalForLoop(stmt, 0, Trunc(countVal.v) + 1, GoNil, env, countVal.st)

evalForStmt(stmt, env, st) ==
    LET countVal == Evaluate(stmt.condition, env, st) IN
    IF countVal.k # "ok" THEN countVal
    ELSE IF countVal.v.t # "Number"
    THEN RErr(InterpretingError("For loop count must evaluate to a number"), countVal.st)
    ELSE evalForLoop(stmt, 0, Trunc(countVal.v), GoNil, env, countVal.st)

evalReturnStmt(stmt, env, st) ==
    LET val == Evaluate(stmt.value, env, st) IN
    IF val.k # "ok" THEN val ELSE ROk(ReturnValue(val.v), val.st)

\* Evaluate's type switch; a Program is run statement by statement by the
\* driver's steps below (evalProgram)
Evaluate(astNode, env, st) ==
    CASE astNode.kind = "NumericLiteral" -> ROk(NumberVal(astNode.value), st)
      [] astNode.kind = "StringLiteral" -> ROk(StringVal(astNode.value), st)
      [] astNode.kind = "Identifier" -> evalIdentifier(astNode, env, st)
      [] astNode.kind = "ObjectLiteral" -> evalObjectExpr(astNode, env, st)
      [] astNode.kind = "MemberExpr" -> evalMemberExpr(astNode, env, st)
      [] astNode.kind = "BinaryExpr" -> evalBinaryExpr(astNode, env, st)
      [] astNode.kind = "UnaryExpr" -> evalUnaryExpr(astNode, env, st)
      [] astNode.kind = "VarDeclaration" -> evalVarDeclaration(astNode, env, st)
      [] astNode.kind = "FunctionDeclaration" -> evalFunctionDeclaration(astNode, env, st)
      [] astNode.kind = "AssignmentExpr" -> evalAssignmentExpr(astNode, env, st)
      [] astNode.kind = "CallExpr" -> evalCallExpr(astNode, env, st)
      [] astNode.kind = "LogicalExpr" -> evalLogicalExpr(astNode, env, st)
      [] astNode.kind = "IfStmt" -> evalIfStmt(astNode, env, st)
      [] astNode.kind = "WhileStmt" -> evalWhileStmt(astNode, env, st)
      [] astNode.kind = "ForStmt" -> evalForStmt(astNode, env, st)
      [] astNode.kind = "ReturnStmt" -> evalReturnStmt(astNode, env, st)
      [] OTHER -> RErr(InterpretingError(
                      "AST Node has not been added for interpretation: <nil>"), st)

(***************************************************************************)
(* Lex: one iteration of its read loop.                                    *)
(***************************************************************************)
NewLexer == [line |-> 1, column |-> 0, rd |-> 1]

\* the iteration of Lex that reads rune r = s[l.rd]: the lexer and the token
\* list after it
LexRune(s, l, toks) ==
    LET r == Ch(s, l.rd)
        col == l.column + 1
        here == Position(l.line, col)
        one(t) == [lexer |-> [line |-> l.line, column |-> col, rd |-> l.rd + 1],
                   tokenList |-> Append(toks, TokenItem(here, t, r))]
        sub(out, t) == [lexer |-> [line |-> l.line, column |-> out.column, rd |-> out.rd],
                        tokenList |-> Append(toks, TokenItem(here, t, out.lit))]
        typed(out) == sub(out, out.tokenType)
    IN
    CASE r = "\n" -> [lexer |-> [line |-> l.line + 1, column |-> 0, rd |-> l.rd + 1],
                      tokenList |-> toks]
      [] r \in DOMAIN SimpleToken -> one(SimpleToken[r])
      [] r = "=" -> typed(lexEquals(s, l.rd, l.column))
      [] r = "!" -> typed(lexNot(s, l.rd, l.column))
      [] r = "&" -> typed(lexAnd(s, l.rd, l.column))
      [] r = "|" -> typed(lexOr(s, l.rd, l.column))
      [] r = "<" -> typed(lexLessThan(s, l.rd, l.column))
      [] r = ">" -> typed(lexGreaterThan(s, l.rd, l.column))
      [] OTHER ->
            IF IsSpace(r)
            THEN [lexer |-> [line |-> l.line, column |-> col, rd |-> l.rd + 1],
                  tokenList |-> toks]
            ELSE IF IsDigit(r) THEN typed(lexNum(s, l.rd, l.column))
            ELSE IF IsLetter(r)
            THEN LET out == lexIdent(s, l.rd, l.column) IN sub(out, Keyword(out.lit))
            ELSE IF r = "\"" THEN typed(lexString(s, l.rd, l.column))
            ELSE one("ILLEGAL")

\* a return of Lex at io.EOF that appends no token
LexEndSilent(l, toks) == toks

\* ReadRune fails with io.EOF: the EOF token is appended and Lex returns
LexEnd(l, toks) == Append(toks, TokenItem(Position(l.line, l.column), "EOF", ""))

(***************************************************************************)
(* The run of main with neither flag: Lex, NewParser and ProduceAst,       *)
(* NewEnvironment(nil) and Evaluate.                                       *)
(***************************************************************************)
NewParser == [tokenIndex |-> 0, body |-> <<>>]

NoInterp == [envs |-> <<>>, out |-> <<>>, log |-> <<>>, fuel |-> 0, idx |-> 0,
             lastEvaluated |-> GoNil]

Running == [status |-> "running", msg |-> "", exit |-> 0 - 1]

\* main prints an error and returns: the process exits with status 0
Returned(status, msg) == [status |-> status, msg |-> msg, exit |-> 0]

\* an uncaught panic ends the process with status 2
Panicked(msg) == [status |-> "panic", msg |-> "panic: " \o msg, exit |-> 2]

LexStep ==
    /\ pc = "lex"
    /\ lexer.rd <= Len(src)
    /\ LET n == LexRune(src, lexer, tokenList) IN
       /\ lexer' = n.lexer
       /\ tokenList' = n.tokenList
    /\ UNCHANGED <<src, pc, parser, interp, outcome, da, db, dres>>

LexEOF ==
    /\ pc = "lex"
    /\ lexer.rd > Len(src)
    /\ tokenList' = LexEnd(lexer, tokenList)
    /\ parser' = NewParser
    /\ pc' = "parse"
    /\ UNCHANGED <<src, lexer, interp, outcome, da, db, dres>>

\* one iteration of the loop of ProduceAst; on its return main creates the
\* global environment
ParseStep ==
    /\ pc = "parse"
    /\ LET stmt == method("parseStmt", tokenList, parser.tokenIndex + 1) IN
       IF ~stmt.ok
       THEN /\ outcome' = Returned("parse_error", ParsingErrorString(stmt.err))
            /\ parser' = [tokenIndex |-> stmt.i - 1, body |-> <<>>]
            /\ pc' = "done"
            /\ UNCHANGED interp
       ELSE /\ parser' = [tokenIndex |-> stmt.i - 1, body |-> Append(parser.body, stmt.node)]
            /\ IF Cur(tokenList, stmt.i).tokenType = "EOF"
               THEN /\ pc' = "eval"
                    /\ interp' = [NoInterp EXCEPT !.envs = NewEnvironment(<<>>, 0),
                                                  !.fuel = MaxFuel]
               ELSE UNCHANGED <<pc, interp>>
            /\ UNCHANGED outcome
    /\ UNCHANGED <<src, lexer, tokenList, da, db, dres>>

EvalState(i) == [envs |-> i.envs, out |-> i.out, log |-> i.log, fuel |-> i.fuel]

\* one iteration of the loop of evalProgram, on the global environment
EvalStep ==
    /\ pc = "eval"
    /\ interp.idx < Len(parser.body)
    /\ LET r == Evaluate(parser.body[interp.idx + 1], 1, EvalState(interp))
           after == [envs |-> r.st.envs, out |-> r.st.out, log |-> r.st.log,
                     fuel |-> r.st.fuel, idx |-> interp.idx + 1,
                     lastEvaluated |-> IF r.k = "ok" THEN r.v ELSE GoNil]
       IN /\ interp' = after
          /\ CASE r.k = "ok" -> UNCHANGED <<pc, outcome>>
               [] r.k = "err" -> pc' = "done" /\ outcome' = Returned("runtime_error", r.msg)
               [] r.k = "panic" -> pc' = "done" /\ outcome' = Panicked(r.msg)
               [] OTHER -> pc' = "diverged" /\ outcome' = [Running EXCEPT !.status = "spin"]
    /\ UNCHANGED <<src, lexer, tokenList, parser, da, db, dres>>

\* evalProgram returns lastEvaluated and main returns
EvalReturn ==
    /\ pc = "eval"
    /\ interp.idx = Len(parser.body)
    /\ pc' = "done"
    /\ outcome' = Returned("ok", "")
    /\ UNCHANGED <<src, lexer, tokenList, parser, interp, da, db, dres>>

(***************************************************************************)
(* Inputs.  A run starts from a source text: every text of at most         *)
(* MaxSrcLen characters over LexAlphabet, and the programs below.          *)
(***************************************************************************)
LexAlphabet == {"|", "&", "a", " ", "=", "1"}

RECURSIVE TextsUpTo(_)
TextsUpTo(n) ==
    IF n = 0 THEN {""}
    ELSE LET shorter == TextsUpTo(n - 1) IN
         shorter \cup {s \o c : s \in shorter, c \in LexAlphabet}

LexTexts == TextsUpTo(MaxSrcLen)

\* programs whose last top-level statement is, or ends in, a return
TopLevelReturnPrograms ==
    {"return 1", "return", "var x = 2 return x", "if (true) { return 1 }",
     "if (true) { return 1 print(2) }", "var c = true while (c) { c = false return 2 }",
     "for (1) { return 3 }", "for (0) { return 3 }", "fn f() { return 4 } f()",
     "1 + 2", "print(1)", "var o = { a: 1 } o"}

\* fn f whose body executes `return 1` first, and then print(f())
ReturnBodies ==
    {"return 1 print(\"late\")",
     "return 1 return 2",
     "if (true) { return 1 } return 2",
     "if (true) { return 1 print(\"late\") } return 2",
     "if (true) { if (true) { return 1 } } return 2",
     "if (true) { return 1 x = 5 } print(x) return 2",
     "while (true) { return 1 }",
     "while (c) { c = false return 1 } return 2",
     "while (c) { return 1 c = false } return 2",
     "for (2) { return 1 } return 2",
     "for (2) { print(\"in\") return 1 }",
     "for (1) { return 1 print(\"late\") } return 2"}

ReturnProgram(body) ==
    "var c = true var x = 0 fn f() { " \o body \o " } print(f())"

ReturnPrograms == {ReturnProgram(b) : b \in ReturnBodies}

\* a return with no expression, in a function
BareReturnPrograms ==
    {"fn f() { return } print(f())",
     "fn f() { print(\"in\") return } print(f())",
     "fn f() { if (true) { return } } print(f())",
     "fn f(a) { return } print(f(1))"}

\* assignments, to constants and to variables, at several scope depths
AssignPrelude == "const k = 1 var y = 0 "

AssignStatements ==
    {"k = 2", "k = y", "k = k + 1", "k = (y = 2)", "k = (y = y + 1) + (y = y + 1)",
     "k = zz", "k = g()", "y = 3", "y = (k = 2)",
     "print = 1", "true = false", "nada = y", "true = (y = 7)",
     "fn f() { k = 2 } f()",
     "fn f() { y = 4 k = y } f()",
     "fn f(a) { a = 5 k = a } f(0)",
     "fn f() { fn g() { k = 3 } g() } f()",
     "fn f() { var k = 1 k = 2 print(k) } f() print(k)",
     "fn f(k) { k = 5 print(k) } f(1) print(k)",
     "fn f() { const c = 1 c = 2 } f()",
     "fn f() { const c = 1 fn g() { c = (y = 9) } g() } f()",
     "fn f() { f = 1 } f()",
     "fn f() { k = zz } f()",
     "if (true) { k = 2 }",
     "for (2) { y = y + 1 } k = y"}

AssignPrograms == {AssignPrelude \o a : a \in AssignStatements}

\* declarations of names that are bound already, in the scope or above it
DeclarePrograms ==
    {"var x = 1 var x = 2", "var x = 1 var x", "const c = 1 const c = 2",
     "var x = 1 const x = 2", "const c = 1 var c = 2", "fn f() { } fn f() { }",
     "var f = 1 fn f() { }", "fn f() { } var f = 1", "var print = 1",
     "const true = 0", "fn nada() { }",
     "var x = 1 var x = (x = 5)", "var x = 1 const x = (x = x + 1)",
     "var x = 1 var y = 0 var x = (y = 5)",
     "var x = 1 var x = zz",
     "var x = 1 fn f() { var x = 2 print(x) } f() print(x)",
     "const c = 1 fn f() { var c = 2 c = 3 print(c) } f() print(c)",
     "fn f() { var print = 3 var true = 4 } f() print(true)",
     "fn f() { fn f() { } } f() f()",
     "fn f(a) { var a = 1 } f(0)",
     "fn f(a) { var b = a var b = 2 } f(0)",
     "var x = 1 fn f() { var x = (x = 7) print(x) } f() print(x)",
     "var x = 1 fn f() { var y = 2 fn g() { var x = y var y = x print(x, y) } g() } f()",
     "var x = 1 if (true) { var x = 2 }",
     "const c = 1 fn f() { var c = 2 var c = (c = 3) print(c) } f()",
     "for (2) { var z = 1 }"}

\* the operands of the two print-marked programs of a logical expression
LogicalSpellings == {"and", "plus", "&&", "or", "perhaps"}

ComparisonSpellings == {"==", "!=", "<", "<=", ">", ">="}

MarkedLogical(op) == "print(\"L\") " \o op \o " print(\"R\")"

CountedLogical(op) == "var a = 0 var b = 0 var r = (a = a + 1) " \o op \o " (b = a + 1)"

DecidedLogical(left, op) == "var a = 0 " \o left \o " " \o op \o " (a = 1)"

SideEffectPrograms ==
    {MarkedLogical(op) : op \in LogicalSpellings \cup ComparisonSpellings}
    \cup {CountedLogical(op) : op \in LogicalSpellings \cup ComparisonSpellings}
    \cup {DecidedLogical(l, op) : l \in {"false", "true", "0", "nada"},
                                  op \in {"and", "or"}}
    \cup {"print(\"A\") and print(\"B\") or print(\"C\")",
          "zz and print(\"R\")"}

\* a literal operand on each side of each spelling of AND and OR
Operands == {"true", "false", "0", "1", "2", "nada", "\"s\"", "\"\""}

AndSpellings == {"and", "plus", "&&"}

OrSpellings == {"or", "perhaps", "||"}

LogicalProgram(a, op, b) == a \o " " \o op \o " " \o b

LogicalPrograms ==
    {LogicalProgram(a, op, b) : a \in Operands, op \in AndSpellings \cup OrSpellings,
                                b \in Operands}

\* the lexemes of the keyword table, and identifiers that are not in it
KeywordLexemes ==
    {"func", "fun", "fn", "funky", "def", "if", U2753, "for", "while", "loop",
     "forever", "var", "val", "define", "let", "const", "and", "plus", "or",
     "perhaps", "not", "return"}

OtherIdentifiers == {"iff", "fo", "returns", "x_1", "nota", "a1", "If", "AND"}

KeywordTexts == KeywordLexemes \cup OtherIdentifiers

\* texts with malformed numbers, strings with and without their closing
\* quote, characters of no token, and line breaks
LexCornerTexts ==
    {"1.2.3", "1.", "\"ab", "\"", "\"a\nb\" c", "a\n\nb", "#", "a # b", "x_1 = 1..2",
     "\"ab\" \"", "<== >== !== ===", "a\t\r\n", "a\n\"b"}

\* programs with a character of no token (#), a malformed number or an
\* unterminated string at several positions
IllegalTokenPrograms ==
    {"#", "var x = #", "var # = 1", "1 + #", "print(#)", "print(1 #)", "print(1, 1.2.3)",
     "var s = \"ab", "fn f(#) { }", "fn f() { # }", "fn f() { } #", "if (#) { }",
     "if (true) # { }", "var o = { a: # }", "var o = { # }", "var o = { a: 1 } o.#",
     "var o = { a: 1 } o[#]", "var o = { a: 1 } o[\"a\" #", "var o = { a: 1 } o[\"a\"] #",
     "var o = { a: 1 } print(o[\"a\" \"b)", "var o = { a: 1 } o[\"a\" 1.2.3 print(1)",
     "return #", "x = #", "1 #", "(1 #)", "! #", "1 || 2"}

\* a primary expression followed by call and member suffixes
ChainPrograms ==
    {"f().x", "f()[k]", "o.m()(1).y", "o.m()(1)", "o.a.b", "o[k].a", "o.a[k]",
     "f()()", "o[k](1)", "f(1)(2).x.y", "o.a().b()"}

\* the counts of the for loops: a text and the number it evaluates to
ForCounts ==
    {[text |-> "0", num |-> 0, den |-> 1], [text |-> "1", num |-> 1, den |-> 1],
     [text |-> "3", num |-> 3, den |-> 1], [text |-> "2.5", num |-> 5, den |-> 2],
     [text |-> "0.5", num |-> 1, den |-> 2], [text |-> "0 - 2", num |-> 0 - 2, den |-> 1],
     [text |-> "0 - 0.5", num |-> 0 - 1, den |-> 2],
     [text |-> "0 - 1.5", num |-> 0 - 3, den |-> 2],
     [text |-> "7 / 2", num |-> 7, den |-> 2]}

\* a for loop whose count expression counts its evaluations in e and reads
\* n, and whose body counts its executions in i and assigns n
ForProgram(count) ==
    "var e = 0 var i = 0 var n = " \o count
    \o " for ((e = e + 1) * 0 + n) { i = i + 1 n = n + 5 }"

\* for loops whose count is not a Number
NonNumberCounts == {"true", "nada", "\"2\"", "{ a: 1 }", "print"}

NonNumberForProgram(count) == "var i = 0 for (" \o count \o ") { i = i + 1 }"

ForPrograms ==
    {ForProgram(c.text) : c \in ForCounts}
    \cup {NonNumberForProgram(c) : c \in NonNumberCounts}

\* calls of functions declared at several depths, with a variable of the
\* same name in the caller and in the declaration chain
ScopePrograms ==
    {"var x = 1 fn g() { print(x) } fn h() { var x = 2 g() } h()",
     "fn g() { print(y) } fn h() { var y = 2 g() } h()",
     "fn h() { var z = 3 fn f() { print(z) } f() } h()",
     "fn g() { } fn h() { fn f() { g() } f() } h()",
     "var x = 1 fn h() { var x = 2 fn f() { x = x + 1 print(x) } f() print(x) } h() print(x)",
     "fn f(n) { if (n > 0) { f(n - 1) } print(n) } f(2)",
     "fn h(a) { fn f(b) { print(a, b) } f(2) } h(1)",
     "fn g(a) { print(a) } fn h(a) { g(2) print(a) } h(1)",
     "fn f(a) { } f()"}

\* Number operands of the arithmetic operators: a text and its value
ArithOperands ==
    {[text |-> "0", num |-> 0, den |-> 1], [text |-> "5", num |-> 5, den |-> 1],
     [text |-> "2", num |-> 2, den |-> 1], [text |-> "0.5", num |-> 1, den |-> 2],
     [text |-> "7.5", num |-> 15, den |-> 2], [text |-> "0 - 3", num |-> 0 - 3, den |-> 1]}

ArithOperators == {"+", "-", "*", "/", "%"}

\* a BinaryExpr of two variables that hold Numbers
ArithProgram(left, operator, right) ==
    "var a = " \o left \o " var b = " \o right \o " var r = a " \o operator \o " b"

ArithPrograms ==
    {ArithProgram(l.text, op, r.text) : l \in ArithOperands, op \in ArithOperators,
                                        r \in ArithOperands}
    \cup {"var r = 5 % 0", "var r = 5 % 0.5", "var r = 5 / 0"}

\* the two spellings of the unary NOT and the Bool operands
NotSpellings == {"not ", "!"}

BoolOperands == {[text |-> "true", b |-> TRUE], [text |-> "false", b |-> FALSE],
                 [text |-> "(1 == 1)", b |-> TRUE], [text |-> "(1 == 2)", b |-> FALSE]}

NotProgram(spelling, operand) == "var r = " \o spelling \o operand

IfNotProgram(spelling, operand) ==
    "if (" \o spelling \o operand \o ") { print(\"in\") }"

NotPrograms ==
    {NotProgram(n, o.text) : n \in NotSpellings, o \in BoolOperands}
    \cup {IfNotProgram(n, o.text) : n \in NotSpellings, o \in BoolOperands}

\* calls whose value, produced by a return, is bound, stored in a property
\* and passed as an argument
ReturnStorePrograms ==
    {"fn f() { return 1 } var x = f() var o = { p: f() } print(f())",
     "fn f() { if (true) { return 2 } } var x = f() const y = f()",
     "fn f() { for (2) { return 3 } } var x = f()",
     "fn f() { return 1 } fn g(a) { return a } var x = g(f())",
     "fn f() { return { p: 1 } } var o = { q: f() } var x = o.q.p",
     "fn f() { fn g() { return 5 } return g() } var x = 0 x = f()",
     "fn f() { return 1 } var x = f() return x",
     "fn f(a) { a = f } var x = f(1)"}

\* expressions of two and three operators of the same and of different
\* levels, over a function f, an object o and two variables a and b
PrecedenceExprs ==
    {"1 + 2 * 3", "2 * 3 + 1", "7 - 2 - 1", "8 / 4 / 2", "7 % 4 % 2", "2 - 3 * 4 + 5",
     "(1 + 2) * 3", "1 + 2 < 2 * 2", "1 < 2 == 2 > 1", "1 == 1 == true",
     "1 == 2 and 1 == 1", "1 == 2 or 1 < 2", "true or false and false",
     "f(2) * o.a + 1", "1 + f(2) * 3", "a = b = 3", "a = 1 + 2 == 3"}

PrecedencePrelude == "fn f(n) { return n + 1 } var o = { a: 2 } var a = 0 var b = 0 "

PrecedenceProgram(expr) == PrecedencePrelude \o "var r = " \o expr

PrecedencePrograms ==
    {PrecedenceProgram(e) : e \in PrecedenceExprs} \cup {"print(1 + 2 * 3)"}

\* runs of up to three of the characters that start a two-character
\* operator, and such runs next to an identifier
OperatorRunes == {"=", "!", "<", ">"}

OperatorRuns ==
    {a \o b : a \in OperatorRunes, b \in OperatorRunes \cup {""}}
    \cup {a \o b \o c : a \in OperatorRunes, b \in OperatorRunes, c \in OperatorRunes}

OperatorTexts == OperatorRuns \cup {"!!x", "!x", "!=x", "a<=b", "a<==b", "a===b", "! =", "a=!b"}

\* calls whose arguments print, or assign the variable the callee reads
CalleeSwapMember ==
    "fn a(x) { print(\"a\") } fn b(x) { print(\"b\") } var o = { f: a } var p = { f: b } o.f(o = p)"

CalleeSwapVariable ==
    "fn g(x) { print(\"g\") } fn h(x) { print(\"h\") } var c = g c(c = h)"

CalleeNotCallable == "var f = 1 f(print(\"arg\"))"

CalleeUnbound == "var x = 0 g(x = 1)"

ArgumentsInOrder == "fn f(x, y) { print(\"f\") } f(print(1), print(2))"

CallOrderPrograms ==
    {CalleeSwapMember, CalleeSwapVariable, CalleeNotCallable, CalleeUnbound, ArgumentsInOrder}

\* assignments to and declarations of the names of constants: the seeded
\* ones, declared constants and functions, from the scope of the constant
\* and from the scope of a call, and parameters and locals that shadow them
ConstantPrograms ==
    {"true = false", "print = 1", "nada = 1 print(nada)", "var print = 1",
     "fn f() { } f = 1", "fn f() { } fn f() { print(1) } f()",
     "const k = 1 fn g() { k = 2 } g()",
     "const k = 1 fn g(k) { k = 2 print(k) } g(5) print(k)",
     "fn g() { const c = 1 c = 2 } g()",
     "const k = 1 var k = 2",
     "const k = 1 fn g() { var k = 2 k = 3 print(k) } g() print(k)",
     "fn g(true) { true = 1 print(true) } g(0) print(true)",
     "fn g(a, a) { a = 3 print(a) } g(1, 2)",
     "const k = 1 for (2) { k = k + 1 }",
     "const o = { a: 1 } fn g() { o = { a: 2 } } g()"}

\* declarations in the bodies of if, while and for, read after the block
BlockKeepsPrograms ==
    {"if (true) { var v = 1 } print(v)",
     "var i = 0 while (i < 1) { var w = 2 i = i + 1 } print(w)",
     "for (1) { const u = 3 } print(u)",
     "if (true) { fn f() { print(4) } } f()",
     "fn g() { for (1) { var u = 5 } print(u) } g()",
     "var v = 1 if (true) { v = 2 } print(v)"}

\* loops whose body declares a name and is executed twice
LoopRedeclarePrograms ==
    {[text |-> "for (2) { print(1) var u = 3 }", name |-> "u"],
     [text |-> "for (2) { print(1) const u = 3 }", name |-> "u"],
     [text |-> "for (2) { print(1) fn f() { } }", name |-> "f"],
     [text |-> "var i = 0 while (i < 2) { print(1) i = i + 1 var w = 2 }", name |-> "w"],
     [text |-> "var i = 0 while (i < 2) { print(1) i = i + 1 fn w() { } }", name |-> "w"],
     [text |-> "fn g() { for (2) { print(1) var u = 3 } } g()", name |-> "u"]}

BlockPrograms == BlockKeepsPrograms \cup {p.text : p \in LoopRedeclarePrograms}

\* functions that assign a parameter, called with a variable of another
\* name, of the same name, and of the same name in the declaration chain
ParamOtherName == "var n = 3 fn g(p) { p = p - 1 print(p) } g(n) print(n)"

ParamSameName == "var n = 3 fn g(n) { n = n - 1 print(n) } g(n) print(n)"

ParamInChain == "fn h(n) { fn g(n) { n = 0 print(n) } g(n) print(n) } h(7)"

ParamCounted ==
    "fn f(num) { var r = 1 while (num > 1) { r = r * num num = num - 1 } return r } "
    \o "var c = 3 print(f(c), c)"

ParameterPrograms == {ParamOtherName, ParamSameName, ParamInChain, ParamCounted}

\* programs that end inside a construct, where the parser's loops and
\* expects meet the EOF token
TruncatedPrograms ==
    {"f(o[a", "f(o[a]", "o[", "o.", "f(", "f(1,", "f(1", "(", "((1)", "a =", "a +", "!",
     "{", "{ a", "{ a,", "{ a: 1", "{ a: 1,", "var o = { a: { b", "var o = { a: 1, b }",
     "var", "const k", "if", "if (", "if (true", "if (true) {", "if (true) { a",
     "while (true) {", "for (1) { x", "fn", "fn f", "fn f(", "fn f(a,", "fn f(a", "fn f() {",
     "fn f() { return", "return", "a b c", "1 2 3", ") a", "} a", ", a"}

Sources ==
    ForPrograms \cup ScopePrograms \cup ArithPrograms \cup NotPrograms \cup
    TruncatedPrograms \cup
    ParameterPrograms \cup
    BlockPrograms \cup
    ConstantPrograms \cup
    CallOrderPrograms \cup
    OperatorTexts \cup
    PrecedencePrograms \cup
    ReturnStorePrograms \cup LexTexts \cup KeywordTexts \cup LexCornerTexts \cup IllegalTokenPrograms
    \cup ChainPrograms \cup TopLevelReturnPrograms \cup ReturnPrograms \cup BareReturnPrograms
    \cup AssignPrograms \cup DeclarePrograms \cup SideEffectPrograms \cup LogicalPrograms

(***************************************************************************)
(* The values deepEqual is applied to directly.                            *)
(***************************************************************************)
Scalars ==
    {NumberVal(Rat(0, 1)), NumberVal(Rat(1, 1)), NumberVal(Rat(1, 2)),
     StringVal("a"), StringVal(""), BoolVal(TRUE), BoolVal(FALSE), NadaVal, GoNil,
     NativeFunctionValue("print"), UserFunctionValue("f", <<>>, 1, <<>>)}

LeafValues == {NumberVal(Rat(1, 1)), NumberVal(Rat(2, 1)), StringVal("a"), NadaVal}

ObjectsOver(vals) ==
    {ObjectVal(m) : m \in UNION {[ks -> vals] : ks \in SUBSET {"a", "b"}}}

FlatObjects == ObjectsOver(LeafValues)

NestedObjects ==
    {ObjectVal([x \in {"a"} |-> o]) : o \in FlatObjects}
    \cup {ObjectVal([x \in {"a", "b"} |-> IF x = "a" THEN o ELSE NumberVal(Rat(1, 1))]) :
            o \in FlatObjects}

Values == Scalars \cup FlatObjects \cup NestedObjects

(***************************************************************************)
(* Specifications.                                                         *)
(***************************************************************************)
Init ==
    /\ src \in Sources
    /\ pc = "lex"
    /\ lexer = NewLexer
    /\ tokenList = <<>>
    /\ parser = NewParser
    /\ interp = NoInterp
    /\ outcome = Running
    /\ da = GoNil
    /\ db = GoNil
    /\ dres = [ab |-> FALSE, ba |-> FALSE]

Next == LexStep \/ LexEOF \/ ParseStep \/ EvalStep \/ EvalReturn

Spec == Init /\ [][Next]_vars

\* deepEqual applied to a pair of values, in both orders
InitDeepEqual ==
    /\ src = ""
    /\ pc = "apply"
    /\ lexer = NewLexer
    /\ tokenList = <<>>
    /\ parser = NewParser
    /\ interp = NoInterp
    /\ outcome = Running
    /\ da \in Values
    /\ db \in Values
    /\ dres = [ab |-> FALSE, ba |-> FALSE]

ApplyDeepEqual ==
    /\ pc = "apply"
    /\ dres' = [ab |-> deepEqual(da, db), ba |-> deepEqual(db, da)]
    /\ pc' = "applied"
    /\ UNCHANGED <<src, lexer, tokenList, parser, interp, outcome, da, db>>

NextDeepEqual == ApplyDeepEqual

SpecDeepEqual == InitDeepEqual /\ [][NextDeepEqual]_vars


(***************************************************************************)
(* Properties.  Finished(p) is a run of the source text p that has ended,  *)
(* normally, with an error or a panic, or without terminating.             *)
(***************************************************************************)
Finished == pc \in {"done", "diverged"}

DefinedVariants ==
    {"Number", "String", "Bool", "Nada", "Object", "NativeFunction", "UserFunction"}

\* C1: when evalProgram returns without an error, for any program, the
\* value it returns is of a defined language variant and never a
\* ReturnSignal, also when the program has a `return` at top level or as
\* the last statement of a top-level if, while or for body.
C1_ProgramValueIsDefinedVariant ==
    (pc = "done" /\ outcome.status = "ok")
        => interp.lastEvaluated.t \in DefinedVariants

\* what print(f()) shows when the call of f stops at its first `return 1`
OutputUnwound(body) ==
    IF body = "for (2) { print(\"in\") return 1 }" THEN <<"in", "1">> ELSE <<"1">>

\* C2: once `return 1` is executed in a call of f, directly in the body or
\* inside an if, while or for body, no later statement of the call runs and
\* the call evaluates to 1: the run terminates and prints exactly what was
\* printed before the return and then 1, also for `while (true) { return 1 }`.
C2_ReturnUnwindsTheCall ==
    \A body \in ReturnBodies :
        (Finished /\ src = ReturnProgram(body))
            => /\ pc = "done"
               /\ outcome.status = "ok"
               /\ interp.out = OutputUnwound(body)

\* the function declaration parsed first in a program of BareReturnPrograms
FirstFunctionBody == parser.body[1].body

RECURSIVE HasBareReturn(_, _)
HasBareReturn(stmts, i) ==
    IF i > Len(stmts) THEN FALSE
    ELSE \/ stmts[i].kind = "ReturnStmt" /\ stmts[i].value = Nil
         \/ stmts[i].kind = "IfStmt" /\ HasBareReturn(stmts[i].body, 1)
         \/ HasBareReturn(stmts, i + 1)

\* C3: a `return` followed by `}` is parsed as a ReturnStmt whose value is
\* absent, and a call of a function that executes it returns Nada with no
\* runtime error: print(f()) prints nada and the run ends normally.
C3_BareReturnYieldsNada ==
    (pc = "done" /\ src \in BareReturnPrograms)
        => /\ HasBareReturn(FirstFunctionBody, 1)
           /\ outcome.status = "ok"
           /\ Len(interp.out) > 0
           /\ interp.out[Len(interp.out)] = "nada"


(***************************************************************************)
(* The record of the assignments and declarations evaluated so far:        *)
(* interp.log holds, for each, the environments before it (pre), after its *)
(* right-hand side or initializer (mid) and after it (post); and for each  *)
(* call that has ended, its arguments and its value and, for a user        *)
(* function, the scope created for it and the environments at its end.     *)
(***************************************************************************)
Events(e) == {interp.log[i] : i \in {j \in 1..Len(interp.log) : interp.log[j].e = e}}

\* the bindings of every scope of `before` are the same in `after`
SameBindings(before, after) ==
    /\ Len(after) >= Len(before)
    /\ \A i \in 1..Len(before) :
          /\ after[i].variables = before[i].variables
          /\ after[i].constants = before[i].constants

\* the name assigned resolves, from the scope of the assignment, to a
\* binding marked constant
TargetIsConstant(ev) ==
    LET resolvedEnv == resolve(ev.pre, ev.scope, ev.name) IN
    resolvedEnv # 0 /\ ev.name \in ev.pre[resolvedEnv].constants

ConstantMessage(name) ==
    "Interpretation Error: Cannot assign to constant variable: " \o name

\* C4 as stated: an assignment x = e whose x resolves to a constant binding
\* fails with the error naming x and `constant`, from any scope depth, and
\* every binding of every scope is as it was before the assignment.
C4_ConstantAssignmentChangesNothing ==
    \A ev \in Events("assign") :
        (TargetIsConstant(ev) /\ ev.rhs = "ok")
            => /\ ev.k = "err"
               /\ ev.msg = ConstantMessage(ev.name)
               /\ SameBindings(ev.pre, ev.post)

\* C4: an assignment x = e whose x resolves to a constant binding and whose
\* e evaluates fails with the error naming x and `constant`, from any scope
\* depth, and every binding of every scope is as the evaluation of e left
\* it; x itself keeps the value and the marker it had before the assignment.
C4_ConstantAssignmentKeepsRhsEffects ==
    \A ev \in Events("assign") :
        (TargetIsConstant(ev) /\ ev.rhs = "ok")
            => /\ ev.k = "err"
               /\ ev.msg = ConstantMessage(ev.name)
               /\ SameBindings(ev.mid, ev.post)
               /\ LET resolvedEnv == resolve(ev.pre, ev.scope, ev.name) IN
                  /\ resolve(ev.post, ev.scope, ev.name) = resolvedEnv
                  /\ ev.post[resolvedEnv].variables[ev.name]
                        = ev.pre[resolvedEnv].variables[ev.name]
                  /\ ev.name \in ev.post[resolvedEnv].constants

\* an assignment to a constant of an enclosing scope, from a function body,
\* whose right-hand side has changed a binding, has been refused
C4_Witness ==
    \E ev \in Events("assign") :
        /\ TargetIsConstant(ev) /\ ev.rhs = "ok" /\ ev.k = "err"
        /\ ev.scope # 1
        /\ resolve(ev.pre, ev.scope, ev.name) # ev.scope
        /\ ~SameBindings(ev.pre, ev.mid)

BoundInScope(envs, ev) == ev.name \in DOMAIN envs[ev.scope].variables

BoundAboveOnly(envs, ev) ==
    ~BoundInScope(envs, ev) /\ resolve(envs, ev.scope, ev.name) # 0

RedeclareMessage(name) ==
    "Interpretation Error: Variable " \o name \o " already defined, cannot redeclare"

\* the declaration has bound its name in its scope, and nothing else changed
\* between `before` and the end of the declaration
Shadows(before, ev) ==
    /\ ev.k = "ok"
    /\ resolve(ev.post, ev.scope, ev.name) = ev.scope
    /\ ev.post[ev.scope].variables[ev.name] = ev.v
    /\ (ev.name \in ev.post[ev.scope].constants) = ev.constant
    /\ Len(ev.post) = Len(before)
    /\ \A i \in 1..Len(before) :
          /\ \A n \in DOMAIN before[i].variables :
                /\ n \in DOMAIN ev.post[i].variables
                /\ ev.post[i].variables[n] = before[i].variables[n]
                /\ (n \in ev.post[i].constants) = (n \in before[i].constants)
          /\ DOMAIN ev.post[i].variables
                = DOMAIN before[i].variables \cup (IF i = ev.scope THEN {ev.name} ELSE {})

\* C5 as stated: a var, const or function declaration of a name bound in
\* the same scope fails and the existing value and constant marker are as
\* they were before the declaration; a declaration of a name bound only in
\* an ancestor scope succeeds and shadows it.
C5_RedeclarationChangesNothing ==
    \A ev \in Events("declare") :
        ev.rhs = "ok" =>
            /\ BoundInScope(ev.pre, ev)
                  => /\ ev.k = "err"
                     /\ ev.post[ev.scope].variables[ev.name]
                           = ev.pre[ev.scope].variables[ev.name]
                     /\ (ev.name \in ev.post[ev.scope].constants)
                           = (ev.name \in ev.pre[ev.scope].constants)
            /\ BoundAboveOnly(ev.pre, ev) => Shadows(ev.mid, ev)

\* C5: a var, const or function declaration of a name bound in the same
\* scope, whose initializer evaluates, fails with the redeclaration error,
\* and every binding, the existing one and its constant marker included, is
\* as the evaluation of the initializer left it; a declaration of a name
\* bound only in an ancestor scope succeeds and shadows it.
C5_RedeclarationKeepsInitializerEffects ==
    \A ev \in Events("declare") :
        ev.rhs = "ok" =>
            /\ BoundInScope(ev.pre, ev)
                  => /\ ev.k = "err"
                     /\ ev.msg = RedeclareMessage(ev.name)
                     /\ ev.post = ev.mid
            /\ BoundAboveOnly(ev.pre, ev) => Shadows(ev.mid, ev)

\* a declaration has shadowed a constant of an ancestor scope, and then a
\* redeclaration whose initializer changed the shadowing binding was refused
C5_Witness ==
    /\ \E ev \in Events("declare") :
          /\ ev.rhs = "ok" /\ BoundInScope(ev.pre, ev) /\ ev.k = "err"
          /\ ev.scope # 1
          /\ ev.mid[ev.scope].variables[ev.name] # ev.pre[ev.scope].variables[ev.name]
    /\ \E ev \in Events("declare") :
          /\ ev.rhs = "ok" /\ BoundAboveOnly(ev.pre, ev) /\ ev.k = "ok"
          /\ ev.name \in ev.post[resolve(ev.pre, ev.scope, ev.name)].constants


\* C6: deepEqual is reflexive: deepEqual(v, v) is true for every runtime
\* value v, a Number, String, Bool, Nada, Object, NativeFunction or
\* UserFunction; two Strings of the same content compare equal.
C6_DeepEqualReflexive ==
    (pc = "applied" /\ da = db /\ da.t \in DefinedVariants) => dres.ab

\* C7: deepEqual is symmetric: deepEqual(a, b) = deepEqual(b, a) for all
\* runtime values a and b, nested Objects of different key sets or sizes
\* included.
C7_DeepEqualSymmetric ==
    pc = "applied" => dres.ab = dres.ba

\* deepEqual has been applied, in both orders, to two Objects of which the
\* first has a proper subset of the keys of the second and agrees on them
C7_Witness ==
    /\ pc = "applied"
    /\ da.t = "Object" /\ db.t = "Object"
    /\ DOMAIN da.props # DOMAIN db.props
    /\ DOMAIN da.props \subseteq DOMAIN db.props
    /\ \A key \in DOMAIN da.props : da.props[key] = db.props[key]
    /\ \E key \in DOMAIN db.props : db.props[key].t = "Object"
    /\ ~dres.ab /\ ~dres.ba

\* the value a global variable has at the end of the run
GlobalValue(name) == interp.envs[1].variables[name]

\* C8: a LogicalExpr (and, or, ==, !=, <, <=, >, >=) whose operands
\* evaluate has its left operand evaluated and then its right operand, each
\* exactly once, before the operator is applied, and the right operand's
\* side effects happen also when the left operand decides the result: the
\* two prints appear once each in order, an assignment in the right operand
\* sees the one of the left operand, and the right operand of a decided
\* `and` or `or` has assigned.
C8_BothOperandsLeftThenRight ==
    pc = "done" =>
        /\ \A op \in {"and", "or"} \cup ComparisonSpellings :
              /\ src = MarkedLogical(op)
                    => outcome.status = "ok" /\ interp.out = <<"L", "R">>
              /\ src = CountedLogical(op)
                    => /\ outcome.status = "ok"
                       /\ GlobalValue("a") = NumberVal(Rat(1, 1))
                       /\ GlobalValue("b") = NumberVal(Rat(2, 1))
        /\ \A l \in {"false", "true", "0", "nada"}, op \in {"and", "or"} :
              src = DecidedLogical(l, op)
                    => outcome.status = "ok" /\ GlobalValue("a") = NumberVal(Rat(1, 1))
        /\ src = "print(\"A\") and print(\"B\") or print(\"C\")"
              => outcome.status = "ok" /\ interp.out = <<"A", "B", "C">>

\* `false and (a = 1)` has been evaluated: the left operand decides the
\* result, which is Bool(false), and the right operand has assigned
C8_Witness ==
    /\ pc = "done"
    /\ src = DecidedLogical("false", "and")
    /\ interp.lastEvaluated = BoolVal(FALSE)
    /\ GlobalValue("a") = NumberVal(Rat(1, 1))

\* the truthiness of the value of a literal operand: Bool(b) is b, a Number
\* is truthy unless it is 0, Nada is not, any other value is
Truthy(operand) == operand \notin {"false", "0", "nada"}

\* C9: for every spelling of the AND token (and, plus, &&), a <op> b
\* evaluates to Bool(truthy(a) AND truthy(b)), and for every spelling of
\* the OR token (or, perhaps, ||) to Bool(truthy(a) OR truthy(b)); no
\* spelling gives an error.
C9_EverySpellingEvaluates ==
    \A a \in Operands, b \in Operands :
        /\ \A op \in AndSpellings :
              (pc = "done" /\ src = LogicalProgram(a, op, b))
                  => /\ outcome.status = "ok"
                     /\ interp.lastEvaluated = BoolVal(Truthy(a) /\ Truthy(b))
        /\ \A op \in OrSpellings :
              (pc = "done" /\ src = LogicalProgram(a, op, b))
                  => /\ outcome.status = "ok"
                     /\ interp.lastEvaluated = BoolVal(Truthy(a) \/ Truthy(b))

\* the lexer has consumed the whole source text
Lexed == pc # "lex"

\* C10: the lexer emits an OR token for the text `||` and an AND token for
\* `&&`, and ILLEGAL for a single `|` or `&` followed by another character.
C10_DoubledBarAndAmpersand ==
    Lexed =>
        /\ src = "||" => tokenList[1].tokenType = "OR"
        /\ src = "&&" => tokenList[1].tokenType = "AND"
        /\ (Len(src) >= 2 /\ Ch(src, 1) = "|" /\ Ch(src, 2) # "|")
              => tokenList[1].tokenType = "ILLEGAL"
        /\ (Len(src) >= 2 /\ Ch(src, 1) = "&" /\ Ch(src, 2) # "&")
              => tokenList[1].tokenType = "ILLEGAL"


\* the token kind the keyword table lists for a lexeme
ListedKind(lexeme) ==
    CASE lexeme \in {"func", "fun", "fn", "funky", "def"} -> "FUN"
      [] lexeme \in {"if", U2753} -> "IF"
      [] lexeme = "for" -> "FOR"
      [] lexeme \in {"while", "loop", "forever"} -> "WHILE"
      [] lexeme \in {"var", "val", "define", "let"} -> "VAR"
      [] lexeme = "const" -> "CONST"
      [] lexeme \in {"and", "plus"} -> "AND"
      [] lexeme \in {"or", "perhaps"} -> "OR"
      [] lexeme = "not" -> "NOT"
      [] lexeme = "return" -> "RETURN"
      [] OTHER -> "IDENT"

\* C11: every lexeme of the keyword table, U+2753 included, lexes to one
\* token of its listed kind, and any other identifier to one IDENT token.
C11_KeywordTable ==
    (Lexed /\ src \in KeywordTexts)
        => /\ Len(tokenList) = 2
           /\ tokenList[1].tokenType = ListedKind(src)
           /\ tokenList[1].value = src


\* the positions of the EOF tokens of the token list
EOFTokens == {i \in 1..Len(tokenList) : tokenList[i].tokenType = "EOF"}

\* C12: Lex terminates on every text, each iteration of its loop reading at
\* least one more rune and never past the end, and the token sequence it
\* returns ends with an EOF token and holds no other EOF token.
C12_LexEndsWithOneEOF ==
    /\ [](/\ pc = "lex" => (EOFTokens = {} /\ lexer.rd <= Len(src) + 1)
          /\ Lexed => EOFTokens = {Len(tokenList)})
    /\ [][(pc = "lex" /\ pc' = "lex") => lexer'.rd > lexer.rd]_vars

\* Lex has returned on a text with an unterminated string after a line break
C12_Witness ==
    /\ Lexed
    /\ \E i \in 1..Len(tokenList) : tokenList[i].tokenType = "ILLEGAL"
    /\ \E i \in 1..Len(tokenList) : tokenList[i].pos.line > 1
    /\ Len(tokenList) >= 3


\* ProduceAst has returned, with a Program or with an error
Parsed == pc \in {"eval", "done", "diverged"}

IllegalTokens == {i \in 1..Len(tokenList) : tokenList[i].tokenType = "ILLEGAL"}

\* C13: a token list with an ILLEGAL token (a character of no token, a
\* malformed number, an unterminated string) makes ProduceAst fail with a
\* positioned ParsingError, wherever the token is: no ILLEGAL token is
\* eaten silently, the one after the index expression of obj[expr included.
C13_IllegalTokenIsParseError ==
    (Parsed /\ IllegalTokens # {})
        => /\ outcome.status = "parse_error"
           /\ parser.body = <<>>


\* the suffix chains of ChainPrograms as nested expressions
Dot(object, name) == MemberExpr(object, Identifier(name), FALSE)

Index(object, name) == MemberExpr(object, Identifier(name), TRUE)

Call0(caller) == CallExpr(caller, <<>>)

Call1(caller, n) == CallExpr(caller, <<NumericLiteral(Rat(n, 1))>>)

ChainExpr(text) ==
    LET f == Identifier("f")
        o == Identifier("o")
    IN
    CASE text = "f().x" -> Dot(Call0(f), "x")
      [] text = "f()[k]" -> Index(Call0(f), "k")
      [] text = "o.m()(1).y" -> Dot(Call1(Call0(Dot(o, "m")), 1), "y")
      [] text = "o.m()(1)" -> Call1(Call0(Dot(o, "m")), 1)
      [] text = "o.a.b" -> Dot(Dot(o, "a"), "b")
      [] text = "o[k].a" -> Dot(Index(o, "k"), "a")
      [] text = "o.a[k]" -> Index(Dot(o, "a"), "k")
      [] text = "f()()" -> Call0(Call0(f))
      [] text = "o[k](1)" -> Call1(Index(o, "k"), 1)
      [] text = "f(1)(2).x.y" -> Dot(Dot(Call1(Call1(f, 1), 2), "x"), "y")
      [] text = "o.a().b()" -> Call0(Dot(Call0(Dot(o, "a")), "b"))

\* C14: after a primary expression any sequence of .IDENT, [expr] and
\* (args) suffixes parses, in any order, to one nested CallExpr/MemberExpr
\* expression: a call may be followed by calls and by member accesses.
C14_SuffixesChainInAnyOrder ==
    (Parsed /\ src \in ChainPrograms)
        => /\ outcome.status # "parse_error"
           /\ parser.body = <<ChainExpr(src)>>


\* max(0, n) for the count c truncated to the integer n
Iterations(c) == IF c.num >= 0 THEN c.num \div c.den ELSE 0

\* C15: for (c) { body } evaluates c exactly once, requires a Number,
\* truncates it to an integer n and executes the body exactly max(0, n)
\* times in the enclosing scope; the body's assignments to a variable read
\* by c do not change the number of iterations.
C15_ForCountsOnce ==
    pc = "done" =>
        /\ \A c \in ForCounts :
              src = ForProgram(c.text)
                  => /\ outcome.status = "ok"
                     /\ GlobalValue("e") = NumberVal(Rat(1, 1))
                     /\ GlobalValue("i") = NumberVal(Rat(Iterations(c), 1))
                     /\ GlobalValue("n")
                           = NumberVal(Rat(c.num + 5 * Iterations(c) * c.den, c.den))
                     /\ Len(interp.envs) = 1
        /\ \A c \in NonNumberCounts :
              src = NonNumberForProgram(c)
                  => /\ outcome.status = "runtime_error"
                     /\ outcome.msg
                           = "Interpretation Error: For loop count must evaluate to a number"
                     /\ GlobalValue("i") = NumberVal(Rat(0, 1))

\* the loop of count 2.5 has ended: two executions of the body, each of
\* which has added 5 to the variable the count read
C15_Witness ==
    /\ pc = "done"
    /\ src = ForProgram("2.5")
    /\ GlobalValue("i") = NumberVal(Rat(2, 1))
    /\ GlobalValue("n") = NumberVal(Rat(25, 2))


\* C16: run with neither flag, the driver ends with a nonzero exit status
\* when the lexer, the parser or the evaluator reports an error, after one
\* diagnostic line; the exit status is 0 only when every stage succeeds.
C16_ErrorsExitNonzero ==
    pc = "done" =>
        /\ outcome.status \in {"parse_error", "runtime_error"}
              => outcome.exit # 0 /\ outcome.msg # ""
        /\ outcome.exit = 0 => outcome.status = "ok"


\* a is reached from s by following parent one or more times
RECURSIVE StrictAncestor(_, _, _)
StrictAncestor(envs, a, s) ==
    /\ envs[s].parent # 0
    /\ \/ envs[s].parent = a
       \/ StrictAncestor(envs, a, envs[s].parent)

\* the scopes created from the start of the call c to its end: the heap
\* only grows, and c.scope is the first one the call creates
CreatedDuring(c) == c.scope..Len(c.post)

\* C17 as stated: the scope of every call of a user function has the
\* function's declarationEnv as parent, and declarationEnv is a strict
\* ancestor of every scope created during the invocation, those of the calls
\* made inside it included.
C17_DeclarationEnvAboveEveryScope ==
    \A c \in Events("call") :
       /\ c.post[c.scope].parent = c.denv
       /\ \A s \in CreatedDuring(c) : StrictAncestor(c.post, c.denv, s)

\* C17: the scope created for a call of a user function has the function's
\* declarationEnv as parent, whatever environment the call is made in, and
\* declarationEnv, which exists before the call, is a strict ancestor of
\* that scope; a free name of the body is the declaration chain's variable
\* and not the caller's local of the same name (1 is printed, not 2), and a
\* caller's local that the chain does not have is not found by the callee.
C17_ScopeParentIsDeclarationEnv ==
    /\ \A c \in Events("call") :
          /\ c.post[c.scope].parent = c.denv
          /\ c.denv < c.scope
          /\ StrictAncestor(c.post, c.denv, c.scope)
    /\ (Finished /\ src = "var x = 1 fn g() { print(x) } fn h() { var x = 2 g() } h()")
          => interp.out = <<"1">>
    /\ (Finished /\ src = "fn g() { print(y) } fn h() { var y = 2 g() } h()")
          => (outcome.status = "panic" /\ outcome.msg = "panic: Variable y does not exist")

\* a function declared in the global scope has been called from the scope of
\* another call, where a variable of the name it reads is bound to 2
C17_Witness ==
    /\ Finished
    /\ \E c \in Events("call") :
          /\ c.k = "ok"
          /\ c.name = "g"
          /\ c.caller # c.denv
          /\ "x" \in DOMAIN c.post[c.caller].variables
          /\ "x" \in DOMAIN c.post[c.denv].variables
          /\ c.post[c.caller].variables["x"] # c.post[c.denv].variables["x"]


\* C18: for every pair of Number operands and each of + - * / %, the
\* BinaryExpr evaluates to a Number with no error and no abort, and a zero
\* divisor gives 0: for / when the right operand is 0, for % when the right
\* operand truncates to 0, as in 5 % 0 and 5 % 0.5.
C18_ArithmeticIsTotal ==
    /\ \A l \in ArithOperands, op \in ArithOperators, r \in ArithOperands :
          (Finished /\ src = ArithProgram(l.text, op, r.text))
              => /\ outcome.status = "ok"
                 /\ GlobalValue("r").t = "Number"
                 /\ (op = "/" /\ r.num = 0) => GlobalValue("r") = NumberVal(Rat(0, 1))
                 /\ (op = "%" /\ Trunc(r) = 0) => GlobalValue("r") = NumberVal(Rat(0, 1))
    /\ (Finished /\ src \in {"var r = 5 % 0", "var r = 5 % 0.5", "var r = 5 / 0"})
          => outcome.status = "ok" /\ GlobalValue("r") = NumberVal(Rat(0, 1))


\* C19: `not` and `!` applied to a Bool operand b evaluate to Bool(not b)
\* with no runtime error: the variable initialised with the negation holds
\* it, `if (not false)` and `if (!false)` enter the body, and `if (not
\* true)` and `if (!true)` run without entering it.
C19_NotNegatesBool ==
    \A n \in NotSpellings, o \in BoolOperands :
       /\ (Finished /\ src = NotProgram(n, o.text))
             => outcome.status = "ok" /\ GlobalValue("r") = BoolVal(~o.b)
       /\ (Finished /\ src = IfNotProgram(n, o.text))
             => /\ outcome.status = "ok"
                /\ interp.out = IF o.b THEN <<>> ELSE <<"in">>


\* v is a ReturnSignal or an object that holds one in a property, at any depth
RECURSIVE HoldsReturnSignal(_)
HoldsReturnSignal(v) ==
    \/ v.t = "ReturnSignal"
    \/ /\ v.t = "Object"
       /\ \E key \in DOMAIN v.props : HoldsReturnSignal(v.props[key])

\* some binding of some scope of envs holds a ReturnSignal
BindsReturnSignal(envs) ==
    \E e \in 1..Len(envs) :
       \E name \in DOMAIN envs[e].variables : HoldsReturnSignal(envs[e].variables[name])

\* C20: the value of a call of a user function that returns is never a
\* ReturnSignal, and after any sequence of statements no variable binding,
\* no object property and no argument list of a call holds a ReturnSignal.
C20_ReturnSignalNeverEscapes ==
    /\ \A c \in Events("call") :
          /\ c.k = "ok" => ~HoldsReturnSignal(c.v)
          /\ \A i \in 1..Len(c.args) : ~HoldsReturnSignal(c.args[i])
          /\ ~BindsReturnSignal(c.post)
    /\ \A c \in Events("native") :
          \A i \in 1..Len(c.args) : ~HoldsReturnSignal(c.args[i])
    /\ \A d \in Events("declare") \cup Events("assign") : ~BindsReturnSignal(d.post)
    /\ ~BindsReturnSignal(interp.envs)

\* the value a return statement gave to a call has been bound to a variable,
\* stored in a property of an object and passed to print
C20_Witness ==
    /\ Finished
    /\ src = "fn f() { return 1 } var x = f() var o = { p: f() } print(f())"
    /\ \E c \in Events("call") : c.name = "f" /\ c.k = "ok" /\ c.v = NumberVal(Rat(1, 1))
    /\ GlobalValue("x") = NumberVal(Rat(1, 1))
    /\ GlobalValue("o").props["p"] = NumberVal(Rat(1, 1))
    /\ \E c \in Events("native") : c.args = <<NumberVal(Rat(1, 1))>>


\* the grouping each of PrecedenceExprs has by the levels Assignment <
\* Logical < Equality < Relational < Additive < Multiplicative < Call/Member
\* < Primary, left to right within a binary level, right to left for =
PrecedenceExpr(text) ==
    LET N(n) == NumericLiteral(Rat(n, 1))
        B(l, op, r) == BinaryExpr(l, r, op)
        L(l, op, r) == LogicalExpr(l, r, op)
        f2 == CallExpr(Identifier("f"), <<N(2)>>)
        a == Identifier("a")
        b == Identifier("b")
        true == Identifier("true")
        false == Identifier("false")
    IN
    CASE text = "1 + 2 * 3" -> B(N(1), "+", B(N(2), "*", N(3)))
      [] text = "2 * 3 + 1" -> B(B(N(2), "*", N(3)), "+", N(1))
      [] text = "7 - 2 - 1" -> B(B(N(7), "-", N(2)), "-", N(1))
      [] text = "8 / 4 / 2" -> B(B(N(8), "/", N(4)), "/", N(2))
      [] text = "7 % 4 % 2" -> B(B(N(7), "%", N(4)), "%", N(2))
      [] text = "2 - 3 * 4 + 5" -> B(B(N(2), "-", B(N(3), "*", N(4))), "+", N(5))
      [] text = "(1 + 2) * 3" -> B(B(N(1), "+", N(2)), "*", N(3))
      [] text = "1 + 2 < 2 * 2" -> L(B(N(1), "+", N(2)), "<", B(N(2), "*", N(2)))
      [] text = "1 < 2 == 2 > 1" -> L(L(N(1), "<", N(2)), "==", L(N(2), ">", N(1)))
      [] text = "1 == 1 == true" -> L(L(N(1), "==", N(1)), "==", true)
      [] text = "1 == 2 and 1 == 1" -> L(L(N(1), "==", N(2)), "and", L(N(1), "==", N(1)))
      [] text = "1 == 2 or 1 < 2" -> L(L(N(1), "==", N(2)), "or", L(N(1), "<", N(2)))
      [] text = "true or false and false" -> L(L(true, "or", false), "and", false)
      [] text = "f(2) * o.a + 1" ->
            B(B(f2, "*", MemberExpr(Identifier("o"), Identifier("a"), FALSE)), "+", N(1))
      [] text = "1 + f(2) * 3" -> B(N(1), "+", B(f2, "*", N(3)))
      [] text = "a = b = 3" -> AssignmentExpr(a, AssignmentExpr(b, N(3)))
      [] text = "a = 1 + 2 == 3" ->
            AssignmentExpr(a, L(B(N(1), "+", N(2)), "==", N(3)))

\* the value of each of PrecedenceExprs under that grouping
PrecedenceValue(text) ==
    CASE text \in {"1 + 2 * 3", "2 * 3 + 1", "f(2) * o.a + 1"} -> NumberVal(Rat(7, 1))
      [] text = "7 - 2 - 1" -> NumberVal(Rat(4, 1))
      [] text \in {"8 / 4 / 2", "7 % 4 % 2"} -> NumberVal(Rat(1, 1))
      [] text = "2 - 3 * 4 + 5" -> NumberVal(Rat(0 - 5, 1))
      [] text = "(1 + 2) * 3" -> NumberVal(Rat(9, 1))
      [] text = "1 + f(2) * 3" -> NumberVal(Rat(10, 1))
      [] text = "a = b = 3" -> NumberVal(Rat(3, 1))
      [] text \in {"1 == 2 and 1 == 1", "true or false and false"} -> BoolVal(FALSE)
      [] OTHER -> BoolVal(TRUE)

\* C21: binary operators group by the levels Assignment < Logical <
\* Equality < Relational < Additive < Multiplicative < Call/Member <
\* Primary; the operators of one binary level group to the left and
\* assignment groups to the right, and the expression evaluates
\* accordingly: print(1 + 2 * 3) writes 7 and a = b = 3 assigns 3 to both.
C21_PrecedenceAndAssociativity ==
    /\ \A e \in PrecedenceExprs :
          /\ (Parsed /\ src = PrecedenceProgram(e))
                => /\ outcome.status # "parse_error"
                   /\ Len(parser.body) = 5
                   /\ parser.body[5] = VarDeclaration(FALSE, "r", PrecedenceExpr(e))
          /\ (Finished /\ src = PrecedenceProgram(e))
                => /\ outcome.status = "ok"
                   /\ GlobalValue("r") = PrecedenceValue(e)
    /\ (Finished /\ src = PrecedenceProgram("a = b = 3"))
          => GlobalValue("a") = NumberVal(Rat(3, 1)) /\ GlobalValue("b") = NumberVal(Rat(3, 1))
    /\ (Finished /\ src = "print(1 + 2 * 3)")
          => outcome.status = "ok" /\ interp.out = <<"7">>

\* a program with an additive, a multiplicative, a call and a member
\* operator has been parsed and evaluated
C21_Witness ==
    /\ Finished
    /\ src = PrecedenceProgram("f(2) * o.a + 1")
    /\ parser.body[5].value.kind = "BinaryExpr"
    /\ parser.body[5].value.operator = "+"
    /\ GlobalValue("r") = NumberVal(Rat(7, 1))


\* the kinds of the tokens of the text s from offset i on, for a lexer that
\* after = ! < > looks at the next character only
RECURSIVE OneLookahead(_, _)
OneLookahead(s, i) ==
    IF i > Len(s) THEN <<"EOF">>
    ELSE LET c == Ch(s, i)
             followed == i < Len(s) /\ Ch(s, i + 1) = "="
         IN
         CASE c \in OperatorRunes /\ followed ->
                 <<CASE c = "=" -> "DE" [] c = "!" -> "NE"
                     [] c = "<" -> "LTE" [] c = ">" -> "GTE">>
                 \o OneLookahead(s, i + 2)
           [] c \in OperatorRunes /\ ~followed ->
                 <<CASE c = "=" -> "EQUALS" [] c = "!" -> "NOT"
                     [] c = "<" -> "LT" [] c = ">" -> "GT">>
                 \o OneLookahead(s, i + 1)
           [] c = " " -> OneLookahead(s, i + 1)
           [] OTHER -> <<"IDENT">> \o OneLookahead(s, i + 1)

\* C22: after = ! < > the lexer looks at exactly the next character: the
\* token is the two-character operator when that character is =, and the
\* one-character operator otherwise, so !!x is NOT NOT IDENT, === is DE
\* EQUALS and <== is LTE EQUALS, and no operator's lexeme is longer than two
\* characters.
C22_OneCharacterLookahead ==
    (Lexed /\ src \in OperatorTexts)
        => /\ [i \in 1..Len(tokenList) |-> tokenList[i].tokenType] = OneLookahead(src, 1)
           /\ \A i \in 1..Len(tokenList) : Len(tokenList[i].value) <= 2


\* the offsets in s at which the iterations of Lex that append a token start
\* reading: the offset of each token's first character, in token order
RECURSIVE TokenStarts(_, _)
TokenStarts(s, l) ==
    IF l.rd > Len(s) THEN <<>>
    ELSE LET n == LexRune(s, l, <<>>) IN
         (IF Len(n.tokenList) = 1 THEN <<l.rd>> ELSE <<>>) \o TokenStarts(s, n.lexer)

\* the newline characters of s before offset off
NewlinesBefore(s, off) == {j \in 1..(off - 1) : Ch(s, j) = "\n"}

\* 1 plus the newlines before off, and the 1-based offset of off in its line
TextPosition(s, off) ==
    LET newlines == NewlinesBefore(s, off)
        lineStart == IF newlines = {} THEN 0
                     ELSE CHOOSE j \in newlines : \A k \in newlines : k <= j
    IN Position(1 + Cardinality(newlines), off - lineStart)

\* C23: every token but the closing EOF has as line 1 plus the number of
\* newline characters before its first character and as column the 1-based
\* offset of that character in its line, also after a string literal that
\* contains newlines.
C23_TokenPositions ==
    Lexed =>
        LET starts == TokenStarts(src, NewLexer) IN
        /\ Len(tokenList) = Len(starts) + 1
        /\ \A i \in 1..Len(starts) : tokenList[i].pos = TextPosition(src, starts[i])


\* C24: when the token list is the EOF token only (an empty source or one of
\* white space), ProduceAst returns a Program with an empty body and no
\* error, and evaluating the Program yields Nada.
C24_EmptySourceIsEmptyProgram ==
    (Parsed /\ Len(tokenList) = 1 /\ tokenList[1].tokenType = "EOF")
        => /\ outcome.status # "parse_error"
           /\ parser.body = <<>>
           /\ Finished => (outcome.status = "ok" /\ interp.lastEvaluated = NadaVal)


\* C25: a CallExpr evaluates its callee first and then its arguments from
\* left to right: an argument that assigns the variable the callee reads
\* does not change the function called, and when the callee fails, or is not
\* a function, no argument has been evaluated.
C25_CalleeBeforeArguments ==
    Finished =>
        /\ src = CalleeSwapMember => outcome.status = "ok" /\ interp.out = <<"a">>
        /\ src = CalleeSwapVariable => outcome.status = "ok" /\ interp.out = <<"g">>
        /\ src = CalleeNotCallable
              => outcome.status = "runtime_error" /\ interp.out = <<>>
        /\ src = CalleeUnbound
              => outcome.status = "panic" /\ GlobalValue("x") = NumberVal(Rat(0, 1))
        /\ src = ArgumentsInOrder
              => outcome.status = "ok" /\ interp.out = <<"1", "2", "f">>


\* every name marked constant in a scope of envs is bound in that scope
ConstantsBound(envs) ==
    \A e \in 1..Len(envs) : envs[e].constants \subseteq DOMAIN envs[e].variables

\* every constant of `before` is a constant of `after` with the same value
ConstantsKept(before, after) ==
    /\ Len(after) >= Len(before)
    /\ \A e \in 1..Len(before) :
          \A name \in before[e].constants :
             /\ name \in after[e].constants
             /\ name \in DOMAIN after[e].variables
             /\ after[e].variables[name] = before[e].variables[name]

\* the constants setupGlobalScope seeds are those of the root of envs
SeededConstantsKept(envs) == envs = <<>> \/ ConstantsKept(NewEnvironment(<<>>, 0), envs)

\* C26: in every state a name marked constant in a scope is bound in that
\* scope, with the value it was declared with: no statement, with the
\* declarations, assignments and calls it makes, changes the binding of a
\* constant (the seeded nada, true, false and print and the declared
\* functions included) or removes its marker.
C26_ConstantsAreKept ==
    /\ [](/\ ConstantsBound(interp.envs)
          /\ SeededConstantsKept(interp.envs)
          /\ \A d \in Events("declare") \cup Events("assign") :
                /\ ConstantsBound(d.mid) /\ ConstantsBound(d.post)
                /\ ConstantsKept(d.pre, d.mid) /\ ConstantsKept(d.mid, d.post)
                /\ ConstantsKept(d.post, interp.envs)
          /\ \A d \in Events("declare") :
                (d.k = "ok" /\ d.constant)
                    => /\ d.name \in interp.envs[d.scope].constants
                       /\ interp.envs[d.scope].variables[d.name] = d.v
          /\ \A c \in Events("call") :
                ConstantsBound(c.post) /\ ConstantsKept(c.post, interp.envs))
    /\ [][pc = "eval" => ConstantsKept(interp.envs, interp'.envs)]_vars

\* a function has assigned a parameter of the name of a global constant,
\* which keeps its value
C26_Witness ==
    /\ Finished
    /\ src = "const k = 1 fn g(k) { k = 2 print(k) } g(5) print(k)"
    /\ interp.out = <<"2", "1">>
    /\ "k" \in interp.envs[1].constants
    /\ GlobalValue("k") = NumberVal(Rat(1, 1))
    /\ \E a \in Events("assign") : a.k = "ok" /\ a.name = "k" /\ a.scope # 1


\* the calls of user functions that have ended
CallCount == Cardinality({j \in 1..Len(interp.log) : interp.log[j].e = "call"})

\* C27: the bodies of if, while and for run in the enclosing environment:
\* the only environments are the root and one for each call of a user
\* function, a name declared in such a body is still bound after the block,
\* and a loop body that declares a name fails on its second execution with
\* the redeclaration error.
C27_BlocksShareTheScope ==
    /\ interp.envs # <<>> => Len(interp.envs) = 1 + CallCount
    /\ Finished =>
          /\ src = "if (true) { var v = 1 } print(v)"
                => outcome.status = "ok" /\ interp.out = <<"1">>
          /\ src = "var i = 0 while (i < 1) { var w = 2 i = i + 1 } print(w)"
                => outcome.status = "ok" /\ interp.out = <<"2">>
          /\ src = "for (1) { const u = 3 } print(u)"
                => outcome.status = "ok" /\ interp.out = <<"3">>
          /\ src = "if (true) { fn f() { print(4) } } f()"
                => outcome.status = "ok" /\ interp.out = <<"4">>
          /\ src = "fn g() { for (1) { var u = 5 } print(u) } g()"
                => outcome.status = "ok" /\ interp.out = <<"5">>
          /\ \A p \in LoopRedeclarePrograms :
                src = p.text
                    => /\ outcome.status = "runtime_error"
                       /\ outcome.msg = "Interpretation Error: Variable " \o p.name
                                        \o " already defined, cannot redeclare"
                       /\ interp.out = <<"1", "1">>

\* a while body that declares w has run once, and w is bound in the root
C27_Witness ==
    /\ Finished
    /\ src = "var i = 0 while (i < 1) { var w = 2 i = i + 1 } print(w)"
    /\ Len(interp.envs) = 1
    /\ GlobalValue("w") = NumberVal(Rat(2, 1))


\* the assignment ev is made in the scope of a call, to one of the
\* parameters of the function called
AssignsParameter(ev) ==
    \E c \in Events("call") :
       /\ c.scope = ev.scope
       /\ \E i \in 1..Len(c.params) : c.params[i] = ev.name

\* C28: the parameters of a call are bound in the scope created for it and
\* are not constants; an assignment to a parameter in the body succeeds and
\* changes that scope only, so when the call has returned every scope that
\* existed before it, the caller's and those of the declaration chain, has
\* the bindings it had: the variable passed keeps its value, also when it
\* has the parameter's name.
C28_ParametersAreLocal ==
    /\ \A c \in Events("call") :
          Len(c.params) = Len(c.args)
              => \A i \in 1..Len(c.params) :
                    /\ c.params[i] \in DOMAIN c.post[c.scope].variables
                    /\ c.params[i] \notin c.post[c.scope].constants
    /\ \A a \in Events("assign") :
          (AssignsParameter(a) /\ a.rhs = "ok")
              => /\ a.k = "ok"
                 /\ \A e \in 1..Len(a.mid) : e # a.scope => a.post[e] = a.mid[e]
    /\ \A c \in Events("call") :
          src \in ParameterPrograms => (c.k = "ok" /\ SameBindings(c.pre, c.post))
    /\ Finished =>
          /\ src \in ParameterPrograms => outcome.status = "ok"
          /\ src \in {ParamOtherName, ParamSameName} => interp.out = <<"2", "3">>
          /\ src = ParamInChain => interp.out = <<"0", "7">>
          /\ src = ParamCounted => interp.out = <<"63">>

\* a function has assigned its parameter n, called with the global n
C28_Witness ==
    /\ Finished
    /\ src = ParamSameName
    /\ GlobalValue("n") = NumberVal(Rat(3, 1))
    /\ \E a \in Events("assign") :
          /\ AssignsParameter(a) /\ a.k = "ok" /\ a.name = "n"
          /\ a.post[a.scope].variables["n"] = NumberVal(Rat(2, 1))


\* the methods of the Parser that parse from the current token
ParserMethods ==
    {"parseStmt", "parseExpr", "parseAdditive", "parseMulti", "parsePrimary",
     "parseVarDeclaration", "parseAssignmentExpr", "parseObjectExpr",
     "parseCallMemberExpr", "parseArguments", "parseMemberExpr",
     "parseFunctionDeclaration", "parseLogicalExpr", "parseEqualityExpr",
     "parseRelationalExpr", "parseIfStmt", "parseWhileStmt", "parseForStmt",
     "parseReturnStmt"}

\* how far past the token list the current token is looked at
MaxPastEOF == 3

\* C29: ProduceAst terminates on every token list that ends in EOF: each
\* iteration of its loop that does not return moves the token index forward,
\* within the list; every method of the parser, started at any token of the
\* list, returns an error or ends at a later token; and once the current
\* token is EOF it is EOF after any number of further calls of eat.
C29_ParserProgress ==
    /\ [](/\ pc = "parse" => parser.tokenIndex < Len(tokenList)
          /\ Lexed =>
                /\ tokenList[Len(tokenList)].tokenType = "EOF"
                /\ \A i \in 1..Len(tokenList) :
                      \A name \in ParserMethods :
                         LET r == method(name, tokenList, i) IN r.ok => r.i > i
                /\ \A n \in 0..MaxPastEOF :
                      Cur(tokenList, Len(tokenList) + n).tokenType = "EOF")
    /\ [][(pc = "parse" /\ pc' = "parse") => parser'.tokenIndex > parser.tokenIndex]_vars

\* ProduceAst has failed at the second expect that met the EOF token: the
\* first one's error was dropped by parseMemberExpr
C29_Witness ==
    /\ Parsed
    /\ src = "f(o[a"
    /\ outcome.status = "parse_error"
    /\ parser.tokenIndex > Len(tokenList)

====
